---- MODULE Spec2Model ----
(***************************************************************************)
(* State-machine model of the planorama RSVP backend: the RSVP routes      *)
(* (routes/rsvps.ts), the event update route (routes/events.ts) and the    *)
(* RSVP collection with its partial unique indexes (models/RSVP.ts).       *)
(* Every request handler is split at the awaits whose results another      *)
(* request can change; each piece is one atomic database operation.        *)
(***************************************************************************)
EXTENDS Bags, FiniteSets, Integers, Sequences, TLC

(* ------------------------------ universe ------------------------------ *)

\* Request handlers that can be in flight at the same time.
Procs == {"p1", "p2"}

\* Largest capacity an organizer sets in the model (the smallest is MinCapacity).
MaxCapacity == 12

\* Largest number of events created by POST /events in the model.
MaxEvents == 1

\* Lower bound of eventSchema.capacity.
MinCapacity == 10
\* Upper bound of tokenRsvpSchema.companions.
MaxCompanions == 5

None == "none"

\* The vertical tab, U+000B (written as the character itself: the strings of
\* the model have no escape for it).
VerticalTab == ""

Users == {"u1", "u2", "u3"}
Events == {"e1", "e2", "e3"}
Tokens == {"t1", "t2", "t3"}

\* The creators of the events that exist at start-up.
Organizer(e) == IF e \in {"e1", "e3"} THEN "u1" ELSE "u2"
\* The ids of the events created while the program runs, in creation order.
NewEventId(i) == "n" \o ToString(i)
NewEvents == {NewEventId(i) : i \in 1..MaxEvents}
\* The values of new Date() and of the date field of an event body, as
\* instants on one time line.
Clock == {2}
DateInputs == {1, 3}
PastDates == {d \in DateInputs : \A now \in Clock : d < now}
FutureDates == DateInputs \ PastDates
\* Token.eventId / Token.email: set at creation, never changed by any route.
tokenEventId(t) == "e1"
tokenEmail(t) == IF t = "t1" THEN "u1@x.org" ELSE IF t = "t2" THEN "g2@x.org" ELSE "g3@x.org"
\* User.email and User.role: u1 and u2 are organizers, u3 is a plain user.
userEmail(u) == IF u = "u1" THEN "u1@x.org" ELSE IF u = "u2" THEN "u2@x.org" ELSE "u3@x.org"
role(u) == IF u = "u3" THEN "user" ELSE "admin"

\* Request inputs. A token body is <<status, raw companions, dietaryPreference,
\* companionDietaryPreference, guestName>>; raw companions is <<>> when the
\* field is absent, a name is a sequence of characters (<<>> when absent).
TokenInputs == Tokens \cup {"tX"}
\* The tokens used while requests run concurrently.
FewTokenInputs == {"t1", "t2", "tX"}
TokenBodies ==
    { <<"going", <<>>, None, None, <<>>>>,
      <<"going", <<4>>, "nonveg", "vegan", <<>>>>,
      <<"going", <<4>>, None, "veg", <<"\t", "A", "n", " ">>>>,
      <<"going", <<5>>, "veg", None, <<VerticalTab, "\t">>>>,
      <<"not-going", <<5>>, "veg", "vegan", <<>>>>,
      <<"maybe", <<0>>, None, None, <<>>>>,
      <<"going", <<6>>, None, None, <<>>>>,
      <<"not-going", <<-1>>, None, None, <<"A", "n", " ">>>> }
\* The bodies that carry no guest name to store on the token.
PlainTokenBodies == {b \in TokenBodies : b[5] \in {<<>>, <<VerticalTab, "\t">>}}
\* <<token, body>> of POST /rsvps/token/:token: every body of bodies for the
\* tokens in tokenInputs that exist, two bodies for those that do not.
TokenRequests(tokenInputs, bodies) ==
    ((tokenInputs \cap Tokens) \X bodies)
      \cup ((tokenInputs \ Tokens) \X {<<"going", <<>>, None, None, <<>>>>, <<"maybe", <<0>>, None, None, <<>>>>})
StatusInputs == {"going", "maybe", "not-going", "yes"}
\* <<caller, event>> of the organizer routes: the owner, another organizer, a
\* plain user, and events the caller does not own or that do not exist.
CallInputs == {<<"u1", "e1">>, <<"u2", "e1">>, <<"u3", "e1">>, <<"u1", "e2">>, <<"u1", "eX">>}
\* <<caller, event, status>> of POST /rsvps/:eventId.
UserRequests ==
    {<<"u1", "e1", s>> : s \in StatusInputs}
      \cup {<<c[1], c[2], "going">> : c \in CallInputs \ {<<"u1", "e1">>}}
\* <<caller, event, capacity, date>> of PUT /events/:id.
UpdateRequests(capacityInputs) ==
    {<<"u1", "e1", cap, d>> : cap \in capacityInputs, d \in FutureDates}
      \cup {<<c[1], c[2], MinCapacity, d>> : c \in CallInputs \ {<<"u1", "e1">>}, d \in FutureDates}
      \cup {<<"u1", "e1", MaxCapacity, d>> : d \in PastDates}
\* The updates of the events created while the program runs, by their
\* creator and by another organizer.
NewEventUpdates ==
    {<<"u1", e, MinCapacity + 1, d>> : e \in NewEvents, d \in FutureDates}
      \cup {<<"u2", e, MinCapacity, d>> : e \in NewEvents, d \in FutureDates}
\* <<caller, capacity, date>> of POST /events.
CreateRequests ==
    {<<u, MinCapacity, d>> : u \in Users, d \in FutureDates}
      \cup {<<"u1", MinCapacity - 1, d>> : d \in FutureDates}
      \cup {<<"u1", MinCapacity, d>> : d \in PastDates}
CapacityInputs == (MinCapacity - 1)..MaxCapacity
\* The capacities set while requests run concurrently.
FewCapacityInputs == {MinCapacity - 1, MinCapacity}

\* The bodies of the token submissions made while invitees are listed.
ListTokenBodies ==
    { <<"going", <<>>, None, None, <<>>>>,
      <<"going", <<4>>, None, "veg", <<"A", "n", " ">>>>,
      <<"not-going", <<5>>, "veg", "vegan", <<>>>> }
\* Query parameters of GET /tokens/:eventId. A raw page or limit is <<>> when
\* the parameter is absent or not a number; a search text is a sequence of
\* characters; the status filter is None when absent.
PageInputs == {<<>>, <<0>>, <<1>>, <<2>>, <<3>>, <<-1>>}
LimitInputs == {<<>>, <<1>>, <<2>>, <<-1>>}
SearchInputs == {<<>>, <<"g", "2">>, <<"A", "N">>}
StatusFilterInputs == {None, "pending", "going", "not-going", "maybe", "attending"}
\* <<raw page, raw limit, search, status>>: every paging of the unfiltered
\* list, every search and filter on the first two pages of one element, and
\* every filter on a page of the default size.
ListQueries ==
    {<<pg, lm, <<>>, None>> : pg \in PageInputs, lm \in LimitInputs}
      \cup {<<pg, <<1>>, sr, st>> : pg \in {<<>>, <<2>>},
                                    sr \in SearchInputs, st \in StatusFilterInputs}
      \cup {<<<<>>, <<>>, <<>>, st>> : st \in StatusFilterInputs}

\* Most Token documents the requests of the model create.
MaxInvites == 1
\* The ids of the Token documents created by requests, in creation order.
NewIds == <<"n1", "n2", "n3", "n4">>
\* Bodies of POST /tokens/:eventId: a new address, the address of user u1 in
\* capitals, and a text that is no address; a name is <<>> when absent.
EmailInputs ==
    { <<"g", "4", "@", "x", ".", "o", "r", "g">>,
      <<"U", "1", "@", "X", ".", "o", "r", "g">>,
      <<"g", "4", ".", "o", "r", "g">> }
NameInputs == {<<>>, <<VerticalTab, "B", "o", " ">>}
\* <<caller, event, email, name>> of POST /tokens/:eventId.
InviteRequests ==
    {<<"u1", "e1", em, nm>> : em \in EmailInputs, nm \in NameInputs}
      \cup {<<c[1], c[2], <<"g", "4", "@", "x", ".", "o", "r", "g">>, <<>>>> :
              c \in (CallInputs \ {<<"u1", "e1">>}) \cup {<<"u2", "e2">>, <<"u1", "e3">>}}
\* Longest hostName templateSchema accepts.
MaxHostName == 100
\* A hostName one character longer than templateSchema accepts.
LongHostName == [i \in 1..(MaxHostName + 1) |-> "H"]
\* <<caller, eventId, isDefault, hostName>> of POST /email-templates: eventId
\* is None and isDefault is FALSE when the field is absent.
TemplateRequests ==
    {<<"u1", e, d, <<"H">>>> : e \in {None, "e1"}, d \in BOOLEAN}
      \cup { <<"u1", "e3", FALSE, <<"K">>>>,
             <<"u1", None, TRUE, <<VerticalTab, "J", "\t">>>>,
             <<"u1", None, TRUE, LongHostName>>,
             <<"u1", None, FALSE, <<" ">>>>,
             <<"u1", None, TRUE, <<>>>>,
             <<"u1", "e2", FALSE, <<"H">>>>,
             <<"u1", "e2", FALSE, <<>>>>,
             <<"u1", "eX", TRUE, <<"H">>>>,
             <<"u2", None, TRUE, <<"H">>>>,
             <<"u3", None, TRUE, <<"H">>>> }
\* <<caller, eventId>> of GET /email-templates: eventId is None when the
\* query parameter is absent.
GetTemplateRequests ==
    {<<"u1", None>>, <<"u1", "e1">>, <<"u1", "e3">>, <<"u1", "e2">>, <<"u2", "e1">>,
     <<"u3", None>>}
\* The queries of the invitee list while invitations are created.
FewListQueries == {<<<<>>, <<>>, <<>>, None>>, <<<<>>, <<>>, <<"U", "1">>, "pending">>}

\* capacity and createdBy are the fields of the Event collection: their
\* domain is the set of the events that exist.
VARIABLES capacity, createdBy, tokenName, rsvps, pc, req, sent, invites, emailConfigured,
          templates

vars == <<capacity, createdBy, tokenName, rsvps, pc, req, sent, invites, emailConfigured,
          templates>>

\* The Token documents created by POST /tokens/:eventId (in creation order),
\* the environment of the email service and the EmailTemplate collection.
inviteVars == <<invites, emailConfigured, templates>>

(* --------------------------- RSVP collection --------------------------- *)

\* A document of the RSVP collection (the fields the routes read or write).
RsvpDoc(e, u, t, s, c, d, cd) ==
    [eventId |-> e, userId |-> u, tokenId |-> t, status |-> s, companions |-> c,
     dietaryPreference |-> d, companionDietaryPreference |-> cd]

\* The documents of bag B that satisfy a query, as a set.
Docs(B) == BagToSet(B)

\* Variant of findGoing that forgets the status filter.
findAnyStatus(B, e) == {r \in Docs(B) : r.eventId = e}

\* Variant of findGoing that leaves out the RSVPs of registered users.
findGoingOfTokens(B, e) ==
    {r \in Docs(B) : r.eventId = e /\ r.status = "going" /\ r.userId = None}

\* RSVP.find({ eventId, status: 'going' })
findGoing(B, e) == {r \in Docs(B) : r.eventId = e /\ r.status = "going"}

\* Variant of findByToken that queries the userId field.
findByTokenWrongField(B, e, t) == {r \in Docs(B) : r.eventId = e /\ r.userId = t}

\* RSVP.findOne({ tokenId, eventId })
findByToken(B, e, t) == {r \in Docs(B) : r.eventId = e /\ r.tokenId = t}

\* RSVP.findOne({ eventId, userId })
findByUser(B, e, u) == {r \in Docs(B) : r.eventId = e /\ r.userId = u}

\* rsvps.reduce((sum, rsvp) => sum + 1 + (rsvp.companions || 0), 0)
RECURSIVE reduceAttendees(_, _)
reduceAttendees(B, S) ==
    IF S = {} THEN 0
    ELSE LET r == CHOOSE x \in S : TRUE
         IN  CopiesIn(r, B) * (1 + r.companions) + reduceAttendees(B, S \ {r})

\* Variant of currentAttendees that counts the RSVPs without their companions.
currentHeads(B, e) == Cardinality(findGoing(B, e))

currentAttendees(B, e) == reduceAttendees(B, findGoing(B, e))

\* Variant of violatesUniqueIndex: a collection without unique indexes.
noUniqueIndex(B, doc) == FALSE

\* The two partial unique indexes of RSVPSchema: a document takes part in an
\* index only when its identity field is an ObjectId.
violatesUniqueIndex(B, doc) ==
    \/ doc.userId # None /\ findByUser(B, doc.eventId, doc.userId) # {}
    \/ doc.tokenId # None /\ findByToken(B, doc.eventId, doc.tokenId) # {}

\* The collection with the documents in S removed.
removeDocs(B, S) == [r \in (DOMAIN B) \ S |-> B[r]]


(* --------------------------- event collection -------------------------- *)

\* Variant of findEvent that looks the event up by its id alone.
findEventById(e, u) == e \in DOMAIN createdBy

\* Event.findOne({ _id: eventId, createdBy: req.user._id }): TRUE when a
\* document is found.
findEvent(e, u) == e \in DOMAIN createdBy /\ createdBy[e] = u

(* ------------------------- request validation -------------------------- *)

DietValues == {"nonveg", "veg", "vegan"}

\* rsvpSchema.parse(req.body): TRUE when the body is accepted.
rsvpSchema(status) == status \in {"going", "maybe", "not-going"}

\* Variant of tokenRsvpSchema without the upper bound on companions.
tokenRsvpSchemaNoMax(status, rawCompanions, diet, cdiet) ==
    /\ status \in {"going", "not-going"}
    /\ rawCompanions = <<>> \/ rawCompanions[1] >= 0

\* Variant of tokenRsvpSchema that takes the status enum of rsvpSchema.
tokenRsvpSchemaAnyStatus(status, rawCompanions, diet, cdiet) ==
    /\ status \in {"going", "maybe", "not-going"}
    /\ rawCompanions = <<>> \/ (rawCompanions[1] >= 0 /\ rawCompanions[1] <= MaxCompanions)

\* tokenRsvpSchema.parse(req.body): TRUE when the body is accepted. The raw
\* companions value is <<>> when the field is absent and <<n>> otherwise.
tokenRsvpSchema(status, rawCompanions, diet, cdiet) ==
    /\ status \in {"going", "not-going"}
    /\ rawCompanions = <<>> \/ (rawCompanions[1] >= 0 /\ rawCompanions[1] <= MaxCompanions)
    /\ diet = None \/ diet \in DietValues
    /\ cdiet = None \/ cdiet \in DietValues

\* z.number().min(0).max(5).default(0): the parsed companions value.
parsedCompanions(rawCompanions) == IF rawCompanions = <<>> THEN 0 ELSE rawCompanions[1]

\* eventSchema.parse(req.body), capacity field: z.number().int().min(10).
eventSchema(cap) == cap >= MinCapacity

\* if (eventDate < now)
pastDate(eventDate, now) == eventDate < now

\* const totalAttendees = validated.status === 'going' ? 1 + validated.companions : 0
totalAttendees(status, companions) == IF status = "going" THEN 1 + companions ELSE 0

\* Variant of isFull that refuses the last seat.
isFullOffByOne(current, total, cap) == current + total >= cap

\* if (currentAttendees + totalAttendees > event.capacity)
isFull(current, total, cap) == current + total > cap

\* availableSpots: event.capacity - currentAttendees
availableSpots(cap, current) == cap - current

\* Variant of rsvpData that binds the RSVP to the registered user with the
\* token's email.
rsvpDataWithUser(t, status, companions, diet, cdiet) ==
    LET match == {u \in Users : userEmail(u) = tokenEmail(t)}
    IN  RsvpDoc(tokenEventId(t), IF match = {} THEN None ELSE CHOOSE u \in match : TRUE,
                t, status, companions, diet, cdiet)

\* Variant of trim that keeps the white space.
untrimmed(n) == n

\* The white-space characters String.prototype.trim removes, of those a
\* string of the model can hold as one character (the no-break space and the
\* other Unicode spaces and line terminators belong to them too).
WhiteSpace == {" ", "\t", "\n", "\r", "\f", VerticalTab}

\* String.prototype.trim: leading and trailing white space removed.
RECURSIVE trimStart(_)
trimStart(n) == IF n # <<>> /\ Head(n) \in WhiteSpace THEN trimStart(Tail(n)) ELSE n
RECURSIVE trimEnd(_)
trimEnd(n) ==
    IF n # <<>> /\ n[Len(n)] \in WhiteSpace THEN trimEnd(SubSeq(n, 1, Len(n) - 1)) ELSE n
trim(n) == trimEnd(trimStart(n))

\* if (validated.guestName && validated.guestName.trim())
hasGuestName(n) == n # <<>> /\ trim(n) # <<>>

\* rsvpData of the token route: no userId field, whatever the token's email.
\* (guestName and guestEmail of the document are read by no route and are
\* left out of the model.)
rsvpData(t, status, companions, diet, cdiet) ==
    RsvpDoc(tokenEventId(t), None, t, status, companions, diet, cdiet)

\* Variant of upsertUserRsvp that always inserts.
insertUserRsvp(B, e, u, status) ==
    B (+) SetToBag({RsvpDoc(e, u, None, status, 0, None, None)})

\* RSVP.findOneAndUpdate({eventId, userId}, {eventId, userId, status},
\* {upsert: true, new: true}): the matched document gets the new status; when
\* none matches, one is inserted (companions takes the schema default 0).
upsertUserRsvp(B, e, u, status) ==
    LET old == findByUser(B, e, u)
    IN  IF old = {}
          THEN B (+) SetToBag({RsvpDoc(e, u, None, status, 0, None, None)})
        ELSE LET o == CHOOSE r \in old : TRUE
             IN  removeDocs(B, {o}) (+) SetToBag({[o EXCEPT !.status = status]})
                   (+) [r \in {x \in {o} : B[o] > 1} |-> B[o] - 1]

\* RSVP.deleteMany({ userId: null }): in MongoDB a null filter matches the
\* documents whose field is null or missing.
deleteOrphaned(B) == removeDocs(B, {r \in Docs(B) : r.userId = None})

\* The bucket a dietary preference is counted in.
bucket(pref) == IF pref \in DietValues THEN pref ELSE "notSpecified"

\* Variant of forEachStats that counts every companion of an RSVP.
RECURSIVE forEachStatsPerCompanion(_, _, _)
forEachStatsPerCompanion(B, S, stats) ==
    IF S = {} THEN stats
    ELSE LET r == CHOOSE x \in S : TRUE
             n == CopiesIn(r, B)
             own == [stats EXCEPT ![bucket(r.dietaryPreference)] = @ + n]
             both == [own EXCEPT ![bucket(r.companionDietaryPreference)] = @ + n * r.companions]
         IN  forEachStatsPerCompanion(B, S \ {r}, both)

\* rsvps.forEach(...) of the dietary-stats route: one count for the guest and,
\* if companions > 0, one for the companion.
RECURSIVE forEachStats(_, _, _)
forEachStats(B, S, stats) ==
    IF S = {} THEN stats
    ELSE LET r == CHOOSE x \in S : TRUE
             n == CopiesIn(r, B)
             own == [stats EXCEPT ![bucket(r.dietaryPreference)] = @ + n]
             both == IF r.companions > 0
                       THEN [own EXCEPT ![bucket(r.companionDietaryPreference)] = @ + n]
                     ELSE own
         IN  forEachStats(B, S \ {r}, both)

dietaryStats(B, e) ==
    forEachStats(B, findGoing(B, e), [nonveg |-> 0, veg |-> 0, vegan |-> 0, notSpecified |-> 0])


(* --------------------------- token collection -------------------------- *)

\* Strings that are searched or normalised are sequences of characters.
Upper == <<"A", "B", "C", "D", "E", "F", "G", "H", "I", "J", "K", "L", "M",
           "N", "O", "P", "Q", "R", "S", "T", "U", "V", "W", "X", "Y", "Z">>
Lower == <<"a", "b", "c", "d", "e", "f", "g", "h", "i", "j", "k", "l", "m",
           "n", "o", "p", "q", "r", "s", "t", "u", "v", "w", "x", "y", "z">>
Digits == {"0", "1", "2", "3", "4", "5", "6", "7", "8", "9"}
Letters == {Upper[i] : i \in DOMAIN Upper} \cup {Lower[i] : i \in DOMAIN Lower}

toLowerChar(c) ==
    IF \E i \in DOMAIN Upper : Upper[i] = c
      THEN Lower[CHOOSE i \in DOMAIN Upper : Upper[i] = c]
    ELSE c
\* String.prototype.toLowerCase
toLowerCase(str) == [i \in 1..Len(str) |-> toLowerChar(str[i])]

\* The characters of the stored email addresses.
AtXOrg(local) == local \o <<"@", "x", ".", "o", "r", "g">>
Chars(email) ==
    CASE email = "u1@x.org" -> AtXOrg(<<"u", "1">>)
      [] email = "u2@x.org" -> AtXOrg(<<"u", "2">>)
      [] email = "u3@x.org" -> AtXOrg(<<"u", "3">>)
      [] email = "g2@x.org" -> AtXOrg(<<"g", "2">>)
      [] email = "g3@x.org" -> AtXOrg(<<"g", "3">>)

\* The Token documents t1..t3 were created in this order before any request
\* of the model; a document created by a request gets a later createdAt.
tokenCreatedAt(t) == CASE t = "t1" -> 1 [] t = "t2" -> 2 [] t = "t3" -> 3

TokenDoc(id, e, email, name, at) ==
    [id |-> id, eventId |-> e, email |-> email, name |-> name, createdAt |-> at]

\* The Token collection: the documents t1..t3 with their current names and
\* the documents in inv.
TokenCollection(names, inv) ==
    {TokenDoc(t, tokenEventId(t), Chars(tokenEmail(t)), names[t], tokenCreatedAt(t)) : t \in Tokens}
      \cup {inv[i] : i \in DOMAIN inv}

\* { $regex: search, $options: 'i' } for a pattern without regular-expression
\* metacharacters: a case-insensitive substring test. An absent field (<<>>)
\* matches no pattern.
regexTest(pattern, text) ==
    \E i \in 1..(Len(text) - Len(pattern) + 1) :
       toLowerCase(SubSeq(text, i, i + Len(pattern) - 1)) = toLowerCase(pattern)

\* Token.find(searchQuery): the $or on email and name is part of the query
\* only for a non-empty search text.
findTokens(coll, e, search) ==
    {t \in coll : /\ t.eventId = e
                  /\ search = <<>> \/ regexTest(search, t.email) \/ regexTest(search, t.name)}

\* .sort({ createdAt: -1 })
RECURSIVE sortByCreatedAtDesc(_)
sortByCreatedAtDesc(S) ==
    IF S = {} THEN <<>>
    ELSE LET t == CHOOSE x \in S : \A y \in S : y.createdAt <= x.createdAt
         IN  <<t>> \o sortByCreatedAtDesc(S \ {t})

\* User.find({ email: { $in: emails } })
findUsersByEmail(emails) == {u \in Users : Chars(userEmail(u)) \in emails}

\* RSVP.find({ eventId, userId: { $in: userIds } })
findByUsers(B, e, userIds) == {r \in Docs(B) : r.eventId = e /\ r.userId \in userIds}

\* RSVP.find({ tokenId: { $in: tokenIds }, eventId })
findByTokens(B, e, tokenIds) == {r \in Docs(B) : r.eventId = e /\ r.tokenId \in tokenIds}

\* An element of the tokens array of the response.
Invitee(token, found) ==
    [id |-> token.id, email |-> token.email, name |-> token.name,
     rsvpStatus |-> IF found = {} THEN None ELSE (CHOOSE r \in found : TRUE).status,
     companions |-> IF found = {} THEN 0 ELSE (CHOOSE r \in found : TRUE).companions]

\* Variant of tokenWithStatus without the fallback to the user's RSVP.
tokenWithStatusTokenOnly(token, users, userRsvps, tokenRsvps) ==
    Invitee(token, {r \in tokenRsvps : r.tokenId = token.id})

\* Variant of tokenWithStatus that looks at the user's RSVP first.
tokenWithStatusUserFirst(token, users, userRsvps, tokenRsvps) ==
    LET byUser == {r \in userRsvps : \E u \in users : Chars(userEmail(u)) = token.email /\ r.userId = u}
    IN  Invitee(token, IF byUser # {} THEN byUser ELSE {r \in tokenRsvps : r.tokenId = token.id})

\* The callback of allTokens.map: the token's RSVP if it has one, else the
\* RSVP of the user with the token's email.
tokenWithStatus(token, users, userRsvps, tokenRsvps) ==
    LET match == {u \in users : Chars(userEmail(u)) = token.email}
        userId == IF match = {} THEN None ELSE CHOOSE u \in match : TRUE
        tokenRsvp == {r \in tokenRsvps : r.tokenId = token.id}
    IN  Invitee(token, IF tokenRsvp # {} THEN tokenRsvp
                       ELSE IF userId # None THEN {r \in userRsvps : r.userId = userId}
                       ELSE {})

\* The status filter: absent (or empty) keeps every token, 'pending' keeps
\* those without a status, any other value those with exactly that status.
applyStatusFilter(list, statusFilter) ==
    LET pending(t) == t.rsvpStatus = None
        equal(t) == t.rsvpStatus = statusFilter
    IN  IF statusFilter = None THEN list
        ELSE IF statusFilter = "pending" THEN SelectSeq(list, pending)
        ELSE SelectSeq(list, equal)

DefaultPage == 1
DefaultLimit == 10

\* parseInt(req.query.page) || 1 and parseInt(req.query.limit) || 10: the raw
\* value is <<>> when the parameter is absent or not a number, else <<n>>.
parsePage(raw) == IF raw = <<>> \/ raw[1] = 0 THEN DefaultPage ELSE raw[1]
parseLimit(raw) == IF raw = <<>> \/ raw[1] = 0 THEN DefaultLimit ELSE raw[1]

\* Variant of skip that starts one page late.
skipFromPageZero(page, limit) == page * limit

\* const skip = (page - 1) * limit
skip(page, limit) == (page - 1) * limit

Min(a, b) == IF a <= b THEN a ELSE b

\* Array.prototype.slice(start, end): a negative index counts from the end.
slice(list, start, end) ==
    LET len == Len(list)
        from == IF start < 0 THEN (IF len + start > 0 THEN len + start ELSE 0) ELSE Min(start, len)
        to == IF end < 0 THEN (IF len + end > 0 THEN len + end ELSE 0) ELSE Min(end, len)
    IN  IF to > from THEN SubSeq(list, from + 1, to) ELSE <<>>

\* Math.ceil(total / limit) for total >= 0 and limit # 0.
ceilDiv(total, limit) ==
    IF limit > 0 THEN (total + limit - 1) \div limit ELSE 0 - (total \div (0 - limit))

\* The filtered list of the response: allTokens is the sorted result of
\* Token.find, userRsvps and tokenRsvps the results of the two RSVP.find.
filteredInvitees(allTokens, userRsvps, tokenRsvps, statusFilter) ==
    LET users == findUsersByEmail({allTokens[i].email : i \in DOMAIN allTokens})
        tokensWithStatus ==
            [i \in DOMAIN allTokens |-> tokenWithStatus(allTokens[i], users, userRsvps, tokenRsvps)]
    IN  applyStatusFilter(tokensWithStatus, statusFilter)

(* ------------------------- invitation creation ------------------------- *)

AlNum == Letters \cup Digits

\* z.string().email(): the address test of tokenSchema.email (one "@", a
\* local part of letters, digits and _ ' + - . that neither starts nor ends
\* with a dot, no two dots in a row, domain labels of letters, digits and
\* hyphens, and a last label of at least two letters).
isEmail(str) ==
    \E a \in 2..Len(str) :
       /\ str[a] = "@"
       /\ \A i \in 1..Len(str) : str[i] = "@" => i = a
       /\ str[1] # "."
       /\ \A i \in 1..(Len(str) - 1) : ~(str[i] = "." /\ str[i + 1] = ".")
       /\ \A i \in 1..(a - 1) : str[i] \in AlNum \cup {"_", "'", "+", "-", "."}
       /\ str[a - 1] \in AlNum \cup {"_", "+", "-"}
       /\ \E d \in (a + 2)..(Len(str) - 2) :
             /\ str[d] = "."
             /\ \A i \in (d + 1)..Len(str) : str[i] \in Letters
             /\ \A i \in (a + 1)..(d - 1) : str[i] \in AlNum \cup {"-", "."}
             /\ str[a + 1] \in AlNum
             /\ \A i \in (a + 1)..(d - 1) : str[i] = "." => str[i + 1] \in AlNum

\* tokenSchema.parse(req.body): TRUE when the body is accepted.
tokenSchema(email, name) == isEmail(email)

\* The parsed email: .toLowerCase().trim() after the address test.
parsedEmail(email) == trim(toLowerCase(email))

\* Token.create({ eventId, email, name, token }): the n-th document created
\* by a request (the schema trims the name; the 256-bit random secret is
\* taken to be fresh).
createToken(n, e, email, name) ==
    TokenDoc(NewIds[n], e, email, trim(name), Cardinality(Tokens) + n)

\* Variant of statusAfterSend that lets a failed dispatch fail the request.
statusAfterSendUncaught(delivered) == IF delivered THEN 201 ELSE 500

\* try { await sendEmail(...) } catch (emailError) { console.error(...) }:
\* the status of the response that follows, whether sendEmail returned
\* (delivered) or threw.
statusAfterSend(delivered) == 201

\* emailSent: isEmailServiceConfigured() of the 201 response.
emailSent(configured, delivered) == configured

(* -------------------------- template collection ------------------------ *)

\* A document of the EmailTemplate collection (eventId is None when the
\* field is absent; hostName stands for the styling and content fields).
TemplateDoc(u, e, d, h) == [userId |-> u, eventId |-> e, isDefault |-> d, hostName |-> h]

\* hostName: { type: String, trim: true }: the setter of the schema trims the
\* hostName a write stores.
storedHostName(h) == trim(h)

\* templateSchema.parse(req.body), hostName field: z.string().min(1).max(100).
templateSchema(hostName) == Len(hostName) >= 1 /\ Len(hostName) <= MaxHostName

\* Variant of violatesTemplateIndex: a collection without the unique index.
noTemplateIndex(B) == FALSE

\* EmailTemplateSchema.index({ userId: 1, isDefault: 1 }, { unique: true,
\* sparse: true }): every document has both fields, so no two documents of
\* the collection may agree on userId and isDefault.
violatesTemplateIndex(B) ==
    \/ \E d \in DOMAIN B : B[d] > 1
    \/ \E d1 \in DOMAIN B, d2 \in DOMAIN B :
          d1 # d2 /\ d1.userId = d2.userId /\ d1.isDefault = d2.isDefault

\* EmailTemplate.updateMany({ userId, isDefault: true }, { $set: { isDefault:
\* false } }): the collection after the update.
unsetDefaults(B, u) ==
    LET f(d) == IF d.userId = u /\ d.isDefault THEN [d EXCEPT !.isDefault = FALSE] ELSE d
        was(x) == [x EXCEPT !.isDefault = TRUE]
    IN  [x \in {f(d) : d \in DOMAIN B} |->
           (IF x \in DOMAIN B /\ f(x) = x THEN B[x] ELSE 0)
             + (IF x.userId = u /\ ~x.isDefault /\ was(x) \in DOMAIN B THEN B[was(x)] ELSE 0)]

\* The filter of findOneAndUpdate: the user's template of the event if the
\* request names one, else the user's default if the request sets one, else
\* any template of the user.
findTemplates(B, u, e, d) ==
    {t \in Docs(B) : /\ t.userId = u
                     /\ IF e # None THEN t.eventId = e ELSE (d => t.isDefault)}

\* The matched document after the update (eventId: undefined is no part of
\* the update, so a request without eventId leaves the field as it is).
updatedTemplate(old, e, d, h) ==
    [old EXCEPT !.eventId = IF e # None THEN e ELSE @, !.isDefault = d,
                !.hostName = storedHostName(h)]

\* The collection with one copy of old replaced by new.
replaceDoc(B, old, new) == (B (-) SetToBag({old})) (+) SetToBag({new})

\* EmailTemplate.findOne({ userId, eventId }) and
\* EmailTemplate.findOne({ userId, isDefault: true }) of the invitation.
findEventTemplate(B, u, e) == {t \in Docs(B) : t.userId = u /\ t.eventId = e}
findDefaultTemplate(B, u) == {t \in Docs(B) : t.userId = u /\ t.isDefault}

(* ----------------------- requests and responses ------------------------ *)

\* The request a handler is working on (its validated body and what it has
\* read so far).
NoReq ==
    [op |-> "none", user |-> None, eventId |-> None, token |-> None, status |-> None,
     rawCompanions |-> <<>>, companions |-> 0, diet |-> None, cdiet |-> None,
     guestName |-> <<>>, capacity |-> 0,
     query |-> <<>>, allTokens |-> <<>>, userRsvps |-> {},
     email |-> <<>>, name |-> <<>>, newToken |-> <<>>, template |-> <<>>, mail |-> None,
     isDefault |-> FALSE, hostName |-> <<>>, rsvp |-> <<>>, users |-> {}, date |-> <<>>]

NoResp ==
    [code |-> 0, error |-> "", status |-> None, companions |-> <<>>,
     totalAttendees |-> <<>>, availableSpots |-> <<>>,
     stats |-> <<>>, tokens |-> <<>>, pagination |-> <<>>,
     token |-> <<>>, emailSent |-> <<>>, template |-> <<>>, hasResponded |-> <<>>,
     rsvp |-> <<>>, rsvps |-> <<>>]

\* sent: the response sent by the last step (with its request), if any.
NoSent == [req |-> NoReq, resp |-> NoResp]

Reply(code, error) == [NoResp EXCEPT !.code = code, !.error = error]

ErrValidation == "Validation error"
ErrBadToken == "Invalid or expired invitation token"
ErrEventNotFound == "Event not found"
ErrPastCreate == "Cannot create an event for a past date. Please select a future date and time."
ErrPastUpdate == "Cannot update event to a past date. Please select a future date and time."
ErrAlreadyResponded == "You have already responded to this invitation"
\* `Event is full. Only ${spots} ${spots === 1 ? 'spot' : 'spots'} remaining.`
ErrEventFull(spots) ==
    "Event is full. Only " \o ToString(spots) \o " "
       \o (IF spots = 1 THEN "spot" ELSE "spots") \o " remaining."
ErrInternal == "Internal server error"
ErrForbidden == "Forbidden: Admin access required"

\* The collections and the handlers after start-up.
InitStores ==
    /\ capacity = [e \in Events |-> MinCapacity]
    /\ createdBy = [e \in Events |-> Organizer(e)]
    /\ tokenName = [t \in Tokens |-> <<>>]
    /\ rsvps = EmptyBag
    /\ pc = [p \in Procs |-> "idle"]
    /\ req = [p \in Procs |-> NoReq]
    /\ sent = NoSent
    /\ invites = <<>>
    /\ templates = EmptyBag

\* A deployment without GMAIL_USER / GMAIL_APP_PASSWORD.
Init == InitStores /\ emailConfigured = FALSE

\* A deployment with or without the credentials of the email service (the
\* environment does not change while the process runs).
InitMail == InitStores /\ emailConfigured \in BOOLEAN

\* The handler of p answers request r with response a and ends.
Respond(p, r, a) ==
    /\ sent' = [req |-> r, resp |-> a]
    /\ pc' = [pc EXCEPT ![p] = "idle"]
    /\ req' = [req EXCEPT ![p] = NoReq]

\* The handler of p goes on to step l with request state r.
Goto(p, r, l) ==
    /\ sent' = NoSent
    /\ pc' = [pc EXCEPT ![p] = l]
    /\ req' = [req EXCEPT ![p] = r]

(* ------------------- POST /rsvps/token/:token ------------------------- *)

\* Body validation and Token.findOne.
TokenBegin(p, tokenInputs, bodies) ==
    /\ pc[p] = "idle"
    /\ \E tb \in TokenRequests(tokenInputs, bodies) :
         LET t == tb[1]
             b == tb[2]
             r == [NoReq EXCEPT !.op = "token", !.token = t, !.status = b[1],
                                !.rawCompanions = b[2], !.diet = b[3], !.cdiet = b[4],
                                !.guestName = b[5]]
         IN  IF ~tokenRsvpSchema(b[1], b[2], b[3], b[4])
               THEN Respond(p, r, Reply(400, ErrValidation))
             ELSE IF t \notin Tokens
               THEN Respond(p, r, Reply(404, ErrBadToken))
             ELSE Goto(p, [r EXCEPT !.companions = parsedCompanions(b[2]),
                                    !.eventId = tokenEventId(t)], "event")
    /\ UNCHANGED <<capacity, createdBy, tokenName, rsvps, inviteVars>>

\* Event.findById(tokenDoc.eventId): the event's capacity is read here and
\* used by the later capacity check.
TokenEvent(p) ==
    /\ pc[p] = "event"
    /\ IF req[p].eventId \notin DOMAIN capacity
         THEN Respond(p, req[p], Reply(404, ErrEventNotFound))
       ELSE Goto(p, [req[p] EXCEPT !.capacity = capacity[req[p].eventId]], "lookup")
    /\ UNCHANGED <<capacity, createdBy, tokenName, rsvps, inviteVars>>

\* RSVP.findOne({ tokenId, eventId }): an existing response is echoed.
TokenLookup(p) ==
    /\ pc[p] = "lookup"
    /\ LET existing == findByToken(rsvps, req[p].eventId, req[p].token)
       IN  IF existing # {}
             THEN LET existingRsvp == CHOOSE r \in existing : TRUE
                  IN  Respond(p, req[p], [Reply(400, ErrAlreadyResponded) EXCEPT
                                            !.status = existingRsvp.status,
                                            !.companions = <<existingRsvp.companions>>])
           ELSE Goto(p, req[p], IF req[p].status = "going" THEN "check" ELSE "create")
    /\ UNCHANGED <<capacity, createdBy, tokenName, rsvps, inviteVars>>

\* RSVP.find({ eventId, status: 'going' }) and the capacity check.
TokenCheck(p) ==
    /\ pc[p] = "check"
    /\ LET current == currentAttendees(rsvps, req[p].eventId)
           total == totalAttendees(req[p].status, req[p].companions)
           spots == availableSpots(req[p].capacity, current)
       IN  IF isFull(current, total, req[p].capacity)
             THEN Respond(p, req[p], [Reply(400, ErrEventFull(spots)) EXCEPT
                        !.availableSpots = <<spots>>])
           ELSE Goto(p, req[p], "create")
    /\ UNCHANGED <<capacity, createdBy, tokenName, rsvps, inviteVars>>

\* The 201 response of the token route.
Created(r) ==
    [Reply(201, "") EXCEPT !.status = r.status, !.companions = <<r.companions>>,
                           !.totalAttendees = <<totalAttendees(r.status, r.companions)>>]

\* const rsvp = await RSVP.create(rsvpData): a duplicate-key error of a
\* unique index is caught by the handler's catch block and answered 500. The
\* 201 response follows at once when no guest name is to be stored on the
\* token.
TokenCreate(p) ==
    /\ pc[p] = "create"
    /\ LET doc == rsvpData(req[p].token, req[p].status, req[p].companions,
                           req[p].diet, req[p].cdiet)
           r == [req[p] EXCEPT !.rsvp = <<doc>>]
       IN  IF violatesUniqueIndex(rsvps, doc)
             THEN /\ Respond(p, req[p], Reply(500, ErrInternal))
                  /\ UNCHANGED rsvps
           ELSE /\ rsvps' = rsvps (+) SetToBag({doc})
                /\ IF hasGuestName(req[p].guestName)
                     THEN Goto(p, r, "rename")
                   ELSE Respond(p, r, Created(r))
    /\ UNCHANGED <<capacity, createdBy, tokenName, inviteVars>>

\* The status of the response after await Token.findByIdAndUpdate: the call
\* is inside the handler's try block, so a rejection (the database cannot
\* be reached, the operation times out) goes to the catch block.
statusAfterRename(updated) == IF updated THEN 201 ELSE 500

\* Token.findByIdAndUpdate(tokenDoc._id, { name: validated.guestName.trim() })
\* returns or rejects, then the response.
TokenRename(p) ==
    /\ pc[p] = "rename"
    /\ \E updated \in BOOLEAN :
         /\ tokenName' = IF updated
                            THEN [tokenName EXCEPT ![req[p].token] = trim(req[p].guestName)]
                          ELSE tokenName
         /\ IF statusAfterRename(updated) = 201
              THEN Respond(p, req[p], Created(req[p]))
            ELSE Respond(p, req[p], Reply(500, ErrInternal))
    /\ UNCHANGED <<capacity, createdBy, rsvps, inviteVars>>

(* ------------------- GET /rsvps/token/:token/status -------------------- *)

\* Variant of respondedAttendees that counts whatever the status.
respondedAttendeesAnyStatus(status, companions) == 1 + companions

\* totalAttendees: rsvp.status === 'going' ? 1 + (rsvp.companions || 0) : 0
respondedAttendees(status, companions) == IF status = "going" THEN 1 + companions ELSE 0

\* Token.findOne({ token }).
StatusBegin(p, tokenInputs) ==
    /\ pc[p] = "idle"
    /\ \E t \in tokenInputs :
         LET r == [NoReq EXCEPT !.op = "status", !.token = t]
         IN  IF t \notin Tokens
               THEN Respond(p, r, Reply(404, ErrBadToken))
             ELSE Goto(p, [r EXCEPT !.eventId = tokenEventId(t)], "statusLookup")
    /\ UNCHANGED <<capacity, createdBy, tokenName, rsvps, inviteVars>>

\* RSVP.findOne({ tokenId, eventId }) and the response.
StatusLookup(p) ==
    /\ pc[p] = "statusLookup"
    /\ LET found == findByToken(rsvps, req[p].eventId, req[p].token)
       IN  IF found # {}
             THEN \E rsvp \in found :
                     Respond(p, req[p],
                             [Reply(200, "") EXCEPT
                                !.hasResponded = <<TRUE>>,
                                !.status = rsvp.status,
                                !.companions = <<rsvp.companions>>,
                                !.totalAttendees =
                                    <<respondedAttendees(rsvp.status, rsvp.companions)>>])
           ELSE Respond(p, req[p], [Reply(200, "") EXCEPT !.hasResponded = <<FALSE>>])
    /\ UNCHANGED <<capacity, createdBy, tokenName, rsvps, inviteVars>>

(* ----------------------- POST /rsvps/:eventId -------------------------- *)

\* authenticate, requireAdmin, rsvpSchema.parse and Event.findOne({_id, createdBy}).
UserBegin(p) ==
    /\ pc[p] = "idle"
    /\ \E c \in UserRequests :
         LET s == c[3]
             r == [NoReq EXCEPT !.op = "user", !.user = c[1], !.eventId = c[2], !.status = s]
         IN  IF role(c[1]) # "admin"
               THEN Respond(p, r, Reply(403, ErrForbidden))
             ELSE IF ~rsvpSchema(s)
               THEN Respond(p, r, Reply(400, ErrValidation))
             ELSE IF ~findEvent(c[2], c[1])
               THEN Respond(p, r, Reply(404, ErrEventNotFound))
             ELSE Goto(p, r, "upsert")
    /\ UNCHANGED <<capacity, createdBy, tokenName, rsvps, inviteVars>>

\* RSVP.findOneAndUpdate(..., { upsert: true, new: true }).
UserUpsert(p) ==
    /\ pc[p] = "upsert"
    /\ rsvps' = upsertUserRsvp(rsvps, req[p].eventId, req[p].user, req[p].status)
    /\ Respond(p, req[p], [Reply(200, "") EXCEPT !.status = req[p].status])
    /\ UNCHANGED <<capacity, createdBy, tokenName, inviteVars>>

(* ---------------------------- POST /events ----------------------------- *)

\* eventSchema.parse, the guard on the date and Event.create({...validated,
\* createdBy: req.user._id}).
CreateEvent(p) ==
    /\ pc[p] = "idle"
    /\ \E c \in CreateRequests, now \in Clock :
         LET cap == c[2]
             id == NewEventId(Cardinality(DOMAIN capacity \ Events) + 1)
             r == [NoReq EXCEPT !.op = "createEvent", !.user = c[1], !.capacity = cap,
                                !.date = <<c[3]>>]
         IN  IF role(c[1]) # "admin"
               THEN Respond(p, r, Reply(403, ErrForbidden)) /\ UNCHANGED <<capacity, createdBy>>
             ELSE IF ~eventSchema(cap)
               THEN Respond(p, r, Reply(400, ErrValidation)) /\ UNCHANGED <<capacity, createdBy>>
             ELSE IF pastDate(c[3], now)
               THEN Respond(p, r, Reply(400, ErrPastCreate)) /\ UNCHANGED <<capacity, createdBy>>
             ELSE /\ id \in NewEvents
                  /\ capacity' = [e \in DOMAIN capacity \cup {id} |->
                                    IF e = id THEN cap ELSE capacity[e]]
                  /\ createdBy' = [e \in DOMAIN createdBy \cup {id} |->
                                     IF e = id THEN c[1] ELSE createdBy[e]]
                  /\ Respond(p, [r EXCEPT !.eventId = id], Reply(201, ""))
    /\ UNCHANGED <<tokenName, rsvps, inviteVars>>

(* -------------------------- PUT /events/:id ---------------------------- *)

\* eventSchema.parse, the guard on the date and
\* Event.findOneAndUpdate({_id, createdBy}, {...validated}).
UpdateEvent(p, requests) ==
    /\ pc[p] = "idle"
    /\ \E c \in requests, now \in Clock :
         LET cap == c[3]
             r == [NoReq EXCEPT !.op = "updateEvent", !.user = c[1], !.eventId = c[2],
                                !.capacity = cap, !.date = <<c[4]>>]
         IN  IF role(c[1]) # "admin"
               THEN Respond(p, r, Reply(403, ErrForbidden)) /\ UNCHANGED capacity
             ELSE IF ~eventSchema(cap)
               THEN Respond(p, r, Reply(400, ErrValidation)) /\ UNCHANGED capacity
             ELSE IF pastDate(c[4], now)
               THEN Respond(p, r, Reply(400, ErrPastUpdate)) /\ UNCHANGED capacity
             ELSE IF ~findEvent(c[2], c[1])
               THEN Respond(p, r, Reply(404, ErrEventNotFound)) /\ UNCHANGED capacity
             ELSE /\ capacity' = [capacity EXCEPT ![c[2]] = cap]
                  /\ Respond(p, r, Reply(200, ""))
    /\ UNCHANGED <<createdBy, tokenName, rsvps, inviteVars>>

(* ------------------------- GET /rsvps/:eventId ------------------------- *)

\* authenticate, requireAdmin and Event.findOne({_id, createdBy}).
GetRsvpBegin(p) ==
    /\ pc[p] = "idle"
    /\ \E c \in CallInputs :
         LET r == [NoReq EXCEPT !.op = "getRsvp", !.user = c[1], !.eventId = c[2]]
         IN  IF role(c[1]) # "admin"
               THEN Respond(p, r, Reply(403, ErrForbidden))
             ELSE IF ~findEvent(c[2], c[1])
               THEN Respond(p, r, Reply(404, ErrEventNotFound))
             ELSE Goto(p, r, "getRsvp")
    /\ UNCHANGED <<capacity, createdBy, tokenName, rsvps, inviteVars>>

\* RSVP.findOne({ eventId, userId }) and the response: the RSVP or null.
GetRsvpFind(p) ==
    /\ pc[p] = "getRsvp"
    /\ LET found == findByUser(rsvps, req[p].eventId, req[p].user)
       IN  IF found = {}
             THEN Respond(p, req[p], [Reply(200, "") EXCEPT !.rsvp = <<None>>])
           ELSE \E rsvp \in found :
                   Respond(p, req[p],
                           [Reply(200, "") EXCEPT
                              !.rsvp = <<[eventId |-> rsvp.eventId, userId |-> rsvp.userId,
                                          status |-> rsvp.status]>>])
    /\ UNCHANGED <<capacity, createdBy, tokenName, rsvps, inviteVars>>

(* --------------------- GET /rsvps/event/:eventId/all ------------------- *)

\* authenticate, requireAdmin and Event.findOne({_id, createdBy}).
AllRsvpsBegin(p) ==
    /\ pc[p] = "idle"
    /\ \E c \in CallInputs :
         LET r == [NoReq EXCEPT !.op = "allRsvps", !.user = c[1], !.eventId = c[2]]
         IN  IF role(c[1]) # "admin"
               THEN Respond(p, r, Reply(403, ErrForbidden))
             ELSE IF ~findEvent(c[2], c[1])
               THEN Respond(p, r, Reply(404, ErrEventNotFound))
             ELSE Goto(p, r, "allRsvps")
    /\ UNCHANGED <<capacity, createdBy, tokenName, rsvps, inviteVars>>

\* rsvp.userId.toString() of a populated user document.
PopulatedToString == "[object Object]"

\* RSVP.find({ eventId }).populate('userId', 'email') and the response: an
\* RSVP without userId makes rsvp.userId.toString() throw, which the catch
\* block answers with 500. (The response is kept as a bag of its entries;
\* the documents of the model carry no createdAt to sort by.)
AllRsvpsFind(p) ==
    /\ pc[p] = "allRsvps"
    /\ LET found == {r \in Docs(rsvps) : r.eventId = req[p].eventId}
           entry(r) == [eventId |-> r.eventId, userId |-> PopulatedToString, status |-> r.status]
       IN  IF \E r \in found : r.userId = None
             THEN Respond(p, req[p], Reply(500, ErrInternal))
           ELSE Respond(p, req[p],
                        [Reply(200, "") EXCEPT
                           !.rsvps = <<BagOfAll(entry, [r \in found |-> rsvps[r]])>>])
    /\ UNCHANGED <<capacity, createdBy, tokenName, rsvps, inviteVars>>

(* ------------------- DELETE /rsvps/cleanup-orphaned -------------------- *)

CleanupOrphaned(p) ==
    /\ pc[p] = "idle"
    /\ \E u \in Users :
         LET r == [NoReq EXCEPT !.op = "cleanup", !.user = u]
         IN  IF role(u) # "admin"
               THEN Respond(p, r, Reply(403, ErrForbidden)) /\ UNCHANGED rsvps
             ELSE /\ rsvps' = deleteOrphaned(rsvps)
                  /\ Respond(p, r, Reply(200, ""))
    /\ UNCHANGED <<capacity, createdBy, tokenName, inviteVars>>

(* -------------- GET /rsvps/event/:eventId/dietary-stats ---------------- *)

DietaryStats(p) ==
    /\ pc[p] = "idle"
    /\ \E c \in CallInputs :
         LET r == [NoReq EXCEPT !.op = "stats", !.user = c[1], !.eventId = c[2]]
         IN  IF role(c[1]) # "admin"
               THEN Respond(p, r, Reply(403, ErrForbidden))
             ELSE IF ~findEvent(c[2], c[1])
               THEN Respond(p, r, Reply(404, ErrEventNotFound))
             ELSE Goto(p, r, "stats")
    /\ UNCHANGED <<capacity, createdBy, tokenName, rsvps, inviteVars>>

\* RSVP.find({ eventId, status: 'going' }), the counts and the response.
DietaryStatsFind(p) ==
    /\ pc[p] = "stats"
    /\ Respond(p, req[p],
               [Reply(200, "") EXCEPT !.stats = <<dietaryStats(rsvps, req[p].eventId)>>])
    /\ UNCHANGED <<capacity, createdBy, tokenName, rsvps, inviteVars>>

(* -------------------------- GET /tokens/:eventId ----------------------- *)

\* authenticate, requireAdmin, Event.findOne and the query parameters. A
\* query is <<raw page, raw limit, search, status>>.
ListBegin(p, queries) ==
    /\ pc[p] = "idle"
    /\ \E c \in CallInputs :
         LET r == [NoReq EXCEPT !.op = "list", !.user = c[1], !.eventId = c[2]]
         IN  IF role(c[1]) # "admin"
               THEN Respond(p, r, Reply(403, ErrForbidden))
             ELSE IF ~findEvent(c[2], c[1])
               THEN Respond(p, r, Reply(404, ErrEventNotFound))
             ELSE \E q \in queries : Goto(p, [r EXCEPT !.query = q], "listFind")
    /\ UNCHANGED <<capacity, createdBy, tokenName, rsvps, inviteVars>>

\* Token.find(searchQuery).sort({ createdAt: -1 }).
ListTokens(p) ==
    /\ pc[p] = "listFind"
    /\ Goto(p, [req[p] EXCEPT !.allTokens = sortByCreatedAtDesc(
                                   findTokens(TokenCollection(tokenName, invites),
                                              req[p].eventId, req[p].query[3]))],
            "listUsers")
    /\ UNCHANGED <<capacity, createdBy, tokenName, rsvps, inviteVars>>

\* User.find({ email: { $in: emails } }).
ListUsers(p) ==
    /\ pc[p] = "listUsers"
    /\ LET all == req[p].allTokens
       IN  Goto(p, [req[p] EXCEPT !.users = findUsersByEmail({all[i].email : i \in DOMAIN all})],
                "listUserRsvps")
    /\ UNCHANGED <<capacity, createdBy, tokenName, rsvps, inviteVars>>

\* RSVP.find of these users' RSVPs for the event.
ListUserRsvps(p) ==
    /\ pc[p] = "listUserRsvps"
    /\ Goto(p, [req[p] EXCEPT !.userRsvps = findByUsers(rsvps, req[p].eventId, req[p].users)],
            "listTokens")
    /\ UNCHANGED <<capacity, createdBy, tokenName, rsvps, inviteVars>>

\* RSVP.find of the tokens' RSVPs, the status of every token, the status
\* filter, the page and the response.
ListTokenRsvps(p) ==
    /\ pc[p] = "listTokens"
    /\ LET all == req[p].allTokens
           page == parsePage(req[p].query[1])
           limit == parseLimit(req[p].query[2])
           tokenRsvps == findByTokens(rsvps, req[p].eventId, {all[i].id : i \in DOMAIN all})
           tokensWithStatus == filteredInvitees(all, req[p].userRsvps, tokenRsvps, req[p].query[4])
           totalTokens == Len(tokensWithStatus)
       IN  Respond(p, req[p],
                   [Reply(200, "") EXCEPT
                      !.tokens = slice(tokensWithStatus, skip(page, limit), skip(page, limit) + limit),
                      !.pagination = <<[page |-> page, limit |-> limit, total |-> totalTokens,
                                        totalPages |-> ceilDiv(totalTokens, limit)]>>])
    /\ UNCHANGED <<capacity, createdBy, tokenName, rsvps, inviteVars>>

(* ------------------------- POST /tokens/:eventId ----------------------- *)

\* authenticate, requireAdmin, tokenSchema.parse and Event.findOne. (A
\* request is started only while the model may still create a document.)
InviteBegin(p, requests) ==
    /\ pc[p] = "idle"
    /\ Len(invites) + Cardinality({q \in Procs : pc[q] = "tokenCreate"}) < MaxInvites
    /\ \E c \in requests :
         LET r == [NoReq EXCEPT !.op = "invite", !.user = c[1], !.eventId = c[2],
                                !.email = c[3], !.name = c[4]]
         IN  IF role(c[1]) # "admin"
               THEN Respond(p, r, Reply(403, ErrForbidden))
             ELSE IF ~tokenSchema(c[3], c[4])
               THEN Respond(p, r, Reply(400, ErrValidation))
             ELSE IF ~findEvent(c[2], c[1])
               THEN Respond(p, r, Reply(404, ErrEventNotFound))
             ELSE Goto(p, [r EXCEPT !.email = parsedEmail(c[3])], "tokenCreate")
    /\ UNCHANGED <<capacity, createdBy, tokenName, rsvps, inviteVars>>

\* The 201 response of the invitation route.
Invited(r, configured, delivered) ==
    [Reply(201, "") EXCEPT
       !.token = <<[id |-> r.newToken[1].id, email |-> r.newToken[1].email,
                    name |-> r.newToken[1].name]>>,
       !.emailSent = <<emailSent(configured, delivered)>>]

\* Token.create; without email service the 201 response follows at once.
InviteCreate(p) ==
    /\ pc[p] = "tokenCreate"
    /\ LET tokenDoc == createToken(Len(invites) + 1, req[p].eventId, req[p].email, req[p].name)
           r == [req[p] EXCEPT !.newToken = <<tokenDoc>>]
       IN  /\ invites' = Append(invites, tokenDoc)
           /\ IF emailConfigured
                THEN Goto(p, r, "template")
              ELSE Respond(p, r, Invited(r, emailConfigured, FALSE))
    /\ UNCHANGED <<capacity, createdBy, tokenName, rsvps, emailConfigured, templates>>

\* EmailTemplate.findOne({ userId, eventId }).
InviteTemplate(p) ==
    /\ pc[p] = "template"
    /\ LET found == findEventTemplate(templates, req[p].user, req[p].eventId)
       IN  IF found = {}
             THEN Goto(p, req[p], "defaultTemplate")
           ELSE \E t \in found : Goto(p, [req[p] EXCEPT !.template = <<t>>], "send")
    /\ UNCHANGED <<capacity, createdBy, tokenName, rsvps, inviteVars>>

\* EmailTemplate.findOne({ userId, isDefault: true }).
InviteDefaultTemplate(p) ==
    /\ pc[p] = "defaultTemplate"
    /\ LET found == findDefaultTemplate(templates, req[p].user)
       IN  IF found = {}
             THEN Goto(p, req[p], "send")
           ELSE \E t \in found : Goto(p, [req[p] EXCEPT !.template = <<t>>], "send")
    /\ UNCHANGED <<capacity, createdBy, tokenName, rsvps, inviteVars>>

\* sendEmail returns or throws (the error is caught and logged), then the
\* response.
InviteSend(p) ==
    /\ pc[p] = "send"
    /\ \E delivered \in BOOLEAN :
         LET r == [req[p] EXCEPT !.mail = IF delivered THEN "sent" ELSE "failed"]
         IN  IF statusAfterSend(delivered) = 201
               THEN Respond(p, r, Invited(r, emailConfigured, delivered))
             ELSE Respond(p, r, Reply(500, ErrInternal))
    /\ UNCHANGED <<capacity, createdBy, tokenName, rsvps, inviteVars>>

(* --------------------------- GET /email-templates ---------------------- *)

\* The default values returned when the organizer has no template to use.
HardcodedTemplate == TemplateDoc(None, None, FALSE, <<>>)

\* authenticate, requireAdmin and the eventId of the query.
GetTemplateBegin(p) ==
    /\ pc[p] = "idle"
    /\ \E c \in GetTemplateRequests :
         LET r == [NoReq EXCEPT !.op = "getTemplate", !.user = c[1], !.eventId = c[2]]
         IN  IF role(c[1]) # "admin"
               THEN Respond(p, r, Reply(403, ErrForbidden))
             ELSE Goto(p, r, IF c[2] # None THEN "getEventTemplate" ELSE "getDefaultTemplate")
    /\ UNCHANGED <<capacity, createdBy, tokenName, rsvps, inviteVars>>

\* EmailTemplate.findOne({ userId, eventId }).
GetEventTemplate(p) ==
    /\ pc[p] = "getEventTemplate"
    /\ LET found == findEventTemplate(templates, req[p].user, req[p].eventId)
       IN  IF found = {}
             THEN Goto(p, req[p], "getDefaultTemplate")
           ELSE \E t \in found :
                   Respond(p, req[p], [Reply(200, "") EXCEPT !.template = <<t>>])
    /\ UNCHANGED <<capacity, createdBy, tokenName, rsvps, inviteVars>>

\* EmailTemplate.findOne({ userId, isDefault: true }) and the response.
GetDefaultTemplate(p) ==
    /\ pc[p] = "getDefaultTemplate"
    /\ LET found == findDefaultTemplate(templates, req[p].user)
       IN  IF found = {}
             THEN Respond(p, req[p], [Reply(200, "") EXCEPT !.template = <<HardcodedTemplate>>])
           ELSE \E t \in found :
                   Respond(p, req[p], [Reply(200, "") EXCEPT !.template = <<t>>])
    /\ UNCHANGED <<capacity, createdBy, tokenName, rsvps, inviteVars>>

(* -------------------------- POST /email-templates ---------------------- *)

\* authenticate, requireAdmin, templateSchema.parse and, for a request with
\* eventId, Event.findOne.
TemplateBegin(p, requests) ==
    /\ pc[p] = "idle"
    /\ \E c \in requests :
         LET r == [NoReq EXCEPT !.op = "template", !.user = c[1], !.eventId = c[2],
                                !.isDefault = c[3], !.hostName = c[4]]
         IN  IF role(c[1]) # "admin"
               THEN Respond(p, r, Reply(403, ErrForbidden))
             ELSE IF ~templateSchema(c[4])
               THEN Respond(p, r, Reply(400, ErrValidation))
             ELSE IF c[2] # None /\ ~findEvent(c[2], c[1])
               THEN Respond(p, r, Reply(404, ErrEventNotFound))
             ELSE Goto(p, r, IF c[3] THEN "unsetDefaults" ELSE "upsertTemplate")
    /\ UNCHANGED <<capacity, createdBy, tokenName, rsvps, inviteVars>>

\* EmailTemplate.updateMany: a duplicate-key error of the unique index is
\* caught by the handler's catch block and answered 500.
TemplateUnsetDefaults(p) ==
    /\ pc[p] = "unsetDefaults"
    /\ LET new == unsetDefaults(templates, req[p].user)
       IN  IF violatesTemplateIndex(new)
             THEN Respond(p, req[p], Reply(500, ErrInternal)) /\ UNCHANGED templates
           ELSE templates' = new /\ Goto(p, req[p], "upsertTemplate")
    /\ UNCHANGED <<capacity, createdBy, tokenName, rsvps, invites, emailConfigured>>

\* The outcome of the write that would make the collection new: refused by
\* the unique index (500) or done (200 with the written template).
TemplateWrite(p, new, t) ==
    IF violatesTemplateIndex(new)
      THEN Respond(p, req[p], Reply(500, ErrInternal)) /\ UNCHANGED templates
    ELSE /\ templates' = new
         /\ Respond(p, req[p], [Reply(200, "") EXCEPT !.template = <<t>>])

\* EmailTemplate.findOneAndUpdate(filter, {...}, { upsert: true, new: true }):
\* one of the matching documents is updated; when none matches, one is
\* inserted.
TemplateUpsert(p) ==
    /\ pc[p] = "upsertTemplate"
    /\ LET u == req[p].user
           e == req[p].eventId
           d == req[p].isDefault
           h == req[p].hostName
           found == findTemplates(templates, u, e, d)
       IN  IF found = {}
             THEN TemplateWrite(p, templates (+) SetToBag({TemplateDoc(u, e, d, storedHostName(h))}),
                                TemplateDoc(u, e, d, storedHostName(h)))
           ELSE \E old \in found :
                   TemplateWrite(p, replaceDoc(templates, old, updatedTemplate(old, e, d, h)),
                                 updatedTemplate(old, e, d, h))
    /\ UNCHANGED <<capacity, createdBy, tokenName, rsvps, invites, emailConfigured>>

(* --------------------------- specifications ---------------------------- *)

\* One step of the handler running in slot p. (No body of PlainTokenBodies
\* makes the token route store a guest name, so TokenRename has no part here.)
Step(p, tokenInputs, capacityInputs) ==
    \/ TokenBegin(p, tokenInputs, PlainTokenBodies)
    \/ TokenEvent(p)
    \/ TokenLookup(p)
    \/ TokenCheck(p)
    \/ TokenCreate(p)
    \/ UserBegin(p)
    \/ UserUpsert(p)
    \/ UpdateEvent(p, UpdateRequests(capacityInputs))
    \/ CleanupOrphaned(p)
    \/ DietaryStats(p)
    \/ DietaryStatsFind(p)

\* Requests are handled concurrently: the steps of the handlers interleave.
Next == \E p \in Procs : Step(p, FewTokenInputs, FewCapacityInputs)

Spec == Init /\ [][Next]_vars

\* Requests are handled one at a time: a handler runs only while no other
\* handler is between its first and its last step.
NextSeq == \E p \in Procs :
    /\ \A q \in Procs \ {p} : pc[q] = "idle"
    /\ Step(p, TokenInputs, CapacityInputs)

SpecSeq == Init /\ [][NextSeq]_vars

\* Concurrent token submissions only, with every body; no other request
\* runs, so the event's capacity is fixed.
NextTok == \E p \in Procs :
    \/ TokenBegin(p, FewTokenInputs, TokenBodies)
    \/ TokenEvent(p)
    \/ TokenLookup(p)
    \/ TokenCheck(p)
    \/ TokenCreate(p)
    \/ TokenRename(p)

SpecTok == Init /\ [][NextTok]_vars

\* The invitee list with the requests that change what it shows, handled
\* one at a time.
NextList == \E p \in Procs :
    /\ \A q \in Procs \ {p} : pc[q] = "idle"
    /\ \/ ListBegin(p, ListQueries)
       \/ ListTokens(p)
       \/ ListUsers(p)
       \/ ListUserRsvps(p)
       \/ ListTokenRsvps(p)
       \/ TokenBegin(p, FewTokenInputs, ListTokenBodies)
       \/ TokenEvent(p)
       \/ TokenLookup(p)
       \/ TokenCheck(p)
       \/ TokenCreate(p)
       \/ TokenRename(p)
       \/ UserBegin(p)
       \/ UserUpsert(p)
       \/ CleanupOrphaned(p)

SpecList == Init /\ [][NextList]_vars

\* Invitations, with the templates they read and the invitee list that
\* shows them, handled one at a time, with and without email service.
NextInvite == \E p \in Procs :
    /\ \A q \in Procs \ {p} : pc[q] = "idle"
    /\ \/ InviteBegin(p, InviteRequests)
       \/ InviteCreate(p)
       \/ InviteTemplate(p)
       \/ InviteDefaultTemplate(p)
       \/ InviteSend(p)
       \/ TemplateBegin(p, TemplateRequests)
       \/ TemplateUnsetDefaults(p)
       \/ TemplateUpsert(p)
       \/ ListBegin(p, FewListQueries)
       \/ ListTokens(p)
       \/ ListUsers(p)
       \/ ListUserRsvps(p)
       \/ ListTokenRsvps(p)

SpecInvite == InitMail /\ [][NextInvite]_vars

\* The requests that resolve a template (invitations and GET
\* /email-templates) with the template saves, handled one at a time, with
\* and without email service.
NextResolve == \E p \in Procs :
    /\ \A q \in Procs \ {p} : pc[q] = "idle"
    /\ \/ InviteBegin(p, InviteRequests)
       \/ InviteCreate(p)
       \/ InviteTemplate(p)
       \/ InviteDefaultTemplate(p)
       \/ InviteSend(p)
       \/ TemplateBegin(p, TemplateRequests)
       \/ TemplateUnsetDefaults(p)
       \/ TemplateUpsert(p)
       \/ GetTemplateBegin(p)
       \/ GetEventTemplate(p)
       \/ GetDefaultTemplate(p)

SpecResolve == InitMail /\ [][NextResolve]_vars

\* Template saves handled concurrently.
NextTemplate == \E p \in Procs :
    \/ TemplateBegin(p, TemplateRequests)
    \/ TemplateUnsetDefaults(p)
    \/ TemplateUpsert(p)

SpecTemplate == Init /\ [][NextTemplate]_vars

\* Token submissions, the status requests of the invitees and the cleanup
\* that deletes token RSVPs, handled concurrently.
NextStatus == \E p \in Procs :
    \/ TokenBegin(p, FewTokenInputs, PlainTokenBodies)
    \/ TokenEvent(p)
    \/ TokenLookup(p)
    \/ TokenCheck(p)
    \/ TokenCreate(p)
    \/ CleanupOrphaned(p)
    \/ StatusBegin(p, FewTokenInputs)
    \/ StatusLookup(p)

SpecStatus == Init /\ [][NextStatus]_vars

\* The bodies of the token submissions made beside the organizers' requests.
OwnerTokenBodies == {<<"going", <<4>>, "nonveg", "vegan", <<>>>>}

\* The template requests made beside them: for an event of the caller, for
\* an event of another organizer (with a body the schema accepts and with
\* one it refuses) and for an event that does not exist.
OwnerTemplateRequests ==
    {r \in TemplateRequests : r[1] = "u1" /\ r[2] \in {"e1", "e2", "eX"} /\ ~r[3]}
      \cup {r \in TemplateRequests : r[2] = "eX"}

\* The invitation requests for events their caller did not create.
RefusedInviteRequests == {c \in InviteRequests : c[2] \notin Events \/ Organizer(c[2]) # c[1]}

\* Every route that names an event and is open to organizers only, with the
\* submissions of one token, handled one at a time. (The invitation requests
\* are those the route refuses, so no Token document is created.)
NextOwner == \E p \in Procs :
    /\ \A q \in Procs \ {p} : pc[q] = "idle"
    /\ \/ UserBegin(p)
       \/ UserUpsert(p)
       \/ GetRsvpBegin(p)
       \/ GetRsvpFind(p)
       \/ AllRsvpsBegin(p)
       \/ AllRsvpsFind(p)
       \/ DietaryStats(p)
       \/ DietaryStatsFind(p)
       \/ ListBegin(p, FewListQueries)
       \/ ListTokens(p)
       \/ ListUsers(p)
       \/ ListUserRsvps(p)
       \/ ListTokenRsvps(p)
       \/ InviteBegin(p, RefusedInviteRequests)
       \/ CreateEvent(p)
       \/ UpdateEvent(p, UpdateRequests(FewCapacityInputs) \cup NewEventUpdates)
       \/ TemplateBegin(p, OwnerTemplateRequests)
       \/ TemplateUnsetDefaults(p)
       \/ TemplateUpsert(p)
       \/ TokenBegin(p, {"t1"}, OwnerTokenBodies)
       \/ TokenEvent(p)
       \/ TokenLookup(p)
       \/ TokenCheck(p)
       \/ TokenCreate(p)

SpecOwner == Init /\ [][NextOwner]_vars

(* ------------------------------- claims -------------------------------- *)

\* The documents of the collection bound to token t / to user u for event e,
\* read off the state directly.
TokenDocs(e, t) == {r \in DOMAIN rsvps : r.eventId = e /\ r.tokenId = t}
UserDocs(e, u) == {r \in DOMAIN rsvps : r.eventId = e /\ r.userId = u}

\* Number of documents in the collection (copies counted).
RECURSIVE CountDocs(_, _)
CountDocs(B, S) ==
    IF S = {} THEN 0
    ELSE LET r == CHOOSE x \in S : TRUE
         IN  CopiesIn(r, B) + CountDocs(B, S \ {r})

\* Sum of (1 + companions) over the 'going' documents of event e, copies counted.
RECURSIVE SumGoing(_, _)
SumGoing(B, S) ==
    IF S = {} THEN 0
    ELSE LET r == CHOOSE x \in S : TRUE
         IN  (IF r.status = "going" THEN B[r] * (1 + r.companions) ELSE 0)
               + SumGoing(B, S \ {r})
Going(B, e) == SumGoing(B, {r \in DOMAIN B : r.eventId = e})

\* Response a is the refusal of the capacity check: 400 with the message that
\* tells the number of spots it reports as availableSpots.
EventFull(a) ==
    /\ a.code = 400
    /\ a.availableSpots # <<>>
    /\ a.error = ErrEventFull(a.availableSpots[1])

\* The last step answered a token submission with 201.
TokenAccepted == sent.req.op = "token" /\ sent.resp.code = 201
\* The last step answered a token submission with "Event is full".
TokenRejectedFull == sent.req.op = "token" /\ EventFull(sent.resp)

Max(a, b) == IF a >= b THEN a ELSE b

\* C1: at the instant a 'going' token RSVP is inserted, the sum of
\* (1 + companions) over the event's 'going' RSVPs, the new one included, does
\* not exceed the event's capacity, under any interleaving of token submissions.
C1_AdmittedWithinCapacity ==
    [][\A p \in Procs :
         (pc[p] = "create" /\ req[p].status = "going" /\ rsvps' # rsvps)
           => Going(rsvps', req[p].eventId) <= capacity'[req[p].eventId]]_vars

\* C2: with requests handled one at a time, a 'going' submission for a token
\* without an RSVP is rejected as full exactly when currentAttendees + 1 +
\* companions > capacity; otherwise the RSVP is stored and the response
\* reports totalAttendees = 1 + companions.
C2_SequentialAdmission ==
    (sent.req.op = "token" /\ sent.req.status = "going"
       /\ sent.resp.error \notin {ErrValidation, ErrBadToken, ErrAlreadyResponded})
      => LET e == sent.req.eventId
             requested == 1 + sent.req.companions
             before == IF sent.resp.code = 201 THEN Going(rsvps, e) - requested
                       ELSE Going(rsvps, e)
         IN  /\ sent.resp.code = 201 \/ EventFull(sent.resp)
             /\ EventFull(sent.resp) <=> (before + requested > capacity[e])
             /\ EventFull(sent.resp) => TokenDocs(e, sent.req.token) = {}
             /\ sent.resp.code = 201 =>
                  /\ \E r \in TokenDocs(e, sent.req.token) :
                        /\ r.status = "going"
                        /\ r.companions = sent.req.companions
                        /\ rsvps[r] = 1
                  /\ sent.resp.totalAttendees = <<requested>>

\* C2 witness: capacity 10, no RSVP before, companions 4 accepted with
\* totalAttendees 5, leaving 5 seats.
C2_Witness ==
    /\ TokenAccepted
    /\ sent.req.companions = 4
    /\ sent.resp.totalAttendees = <<5>>
    /\ capacity[sent.req.eventId] = 10
    /\ Cardinality(DOMAIN rsvps) = 1
    /\ capacity[sent.req.eventId] - Going(rsvps, sent.req.eventId) = 5

\* C3: a token submission whose already-responded lookup finds an RSVP of its
\* (event, token) pair fails with AlreadyResponded, echoes the stored status
\* and companions, and leaves the collection unchanged.
C3_SecondSubmissionRejected ==
    [][\A p \in Procs :
         (pc[p] = "lookup" /\ pc'[p] # "lookup" /\ TokenDocs(req[p].eventId, req[p].token) # {})
           => /\ sent'.resp.code = 400
              /\ sent'.resp.error = ErrAlreadyResponded
              /\ sent'.req = req[p]
              /\ \E r \in TokenDocs(req[p].eventId, req[p].token) :
                    /\ sent'.resp.status = r.status
                    /\ sent'.resp.companions = <<r.companions>>
              /\ rsvps' = rsvps]_vars

\* C3 witness: a second submission with another body was answered
\* AlreadyResponded with the stored response.
C3_Witness ==
    /\ sent.req.op = "token"
    /\ sent.resp.error = ErrAlreadyResponded
    /\ sent.req.status = "not-going"
    /\ sent.resp.status = "going"
    /\ sent.resp.companions = <<4>>
    /\ \E r \in TokenDocs(sent.req.eventId, sent.req.token) :
          r.status = "going" /\ r.companions = 4

\* C4: a user submission for an (event, user) pair that already has an RSVP
\* succeeds, creates no second document and leaves the pair's single RSVP with
\* the submitted status; with the stored status it changes nothing.
C4_UserUpsert ==
    [][\A p \in Procs :
         (pc[p] = "upsert" /\ pc'[p] # "upsert")
           => LET e == req[p].eventId
                  u == req[p].user
                  old == UserDocs(e, u)
                  new == {r \in DOMAIN rsvps' : r.eventId = e /\ r.userId = u}
              IN  /\ sent'.resp.code = 200
                  /\ sent'.resp.status = req[p].status
                  /\ Cardinality(new) = 1
                  /\ \A r \in new : r.status = req[p].status /\ rsvps'[r] = 1
                  /\ old # {} => CountDocs(rsvps', DOMAIN rsvps') = CountDocs(rsvps, DOMAIN rsvps)
                  /\ (\E r \in old : r.status = req[p].status) => rsvps' = rsvps
                  /\ \A r \in DOMAIN rsvps : r \notin old => (r \in DOMAIN rsvps' /\ rsvps'[r] = rsvps[r])]_vars

\* C4 witness: a second submission with a different status is about to write
\* while the pair's RSVP of the first submission is stored.
C4_Witness ==
    \E p \in Procs :
       /\ pc[p] = "upsert"
       /\ req[p].status = "going"
       /\ \E r \in UserDocs(req[p].eventId, req[p].user) : r.status = "maybe"

\* C5: every RSVP has exactly one of userId and tokenId; a token RSVP never
\* carries a userId, also when the token's email is a registered user's.
C5_ExactlyOneIdentity ==
    \A r \in DOMAIN rsvps : (r.userId = None) # (r.tokenId = None)

\* C5 witness: a token whose email is a registered user's has a token RSVP,
\* and that user has a user RSVP for the same event.
C5_Witness ==
    \E r1 \in DOMAIN rsvps, r2 \in DOMAIN rsvps, u \in Users :
       /\ r1.tokenId \in Tokens
       /\ tokenEmail(r1.tokenId) = userEmail(u)
       /\ r1.userId = None
       /\ r2.userId = u
       /\ r2.tokenId = None
       /\ r2.eventId = r1.eventId

\* C6: at most one RSVP per (event, user) pair and per (event, token) pair.
C6_OnePerIdentity ==
    /\ \A r \in DOMAIN rsvps : rsvps[r] = 1
    /\ \A r1 \in DOMAIN rsvps, r2 \in DOMAIN rsvps :
          (r1 # r2 /\ r1.eventId = r2.eventId)
             => /\ r1.userId = None \/ r1.userId # r2.userId
                /\ r1.tokenId = None \/ r1.tokenId # r2.tokenId

\* C6 witness: two token RSVPs without userId coexist for one event, and a
\* concurrent insert for an already stored pair was refused by the index.
C6_Witness ==
    /\ sent.req.op = "token"
    /\ sent.resp.code = 500
    /\ \E r1 \in DOMAIN rsvps, r2 \in DOMAIN rsvps :
          /\ r1 # r2
          /\ r1.eventId = r2.eventId
          /\ r1.userId = None /\ r2.userId = None
          /\ r1.tokenId # r2.tokenId

\* The scenario of C7: capacity 10, the only RSVP (in collection B) is a
\* 'going' token RSVP with companions 4, and response a answers a 'going'
\* submission with companions 6 of a second token.
C7_Scenario(B, a) ==
    /\ a.req.op = "token"
    /\ a.req.token \in Tokens
    /\ a.req.status = "going"
    /\ a.req.rawCompanions = <<6>>
    /\ capacity[tokenEventId(a.req.token)] = 10
    /\ \E r \in DOMAIN B :
          /\ B = SetToBag({r})
          /\ r.eventId = tokenEventId(a.req.token)
          /\ r.tokenId \in Tokens \ {a.req.token}
          /\ r.status = "going"
          /\ r.companions = 4

\* C7 as claimed: the second submission fails with CapacityExceeded reporting
\* 5 remaining spots, and no RSVP is created.
C7_Original ==
    [][C7_Scenario(rsvps, sent')
         => /\ EventFull(sent'.resp)
            /\ sent'.resp.availableSpots = <<5>>
            /\ rsvps' = rsvps]_vars

\* C7 amended: the second submission fails with a 400 validation error
\* (companions above 5 is refused before any capacity check) and no RSVP is
\* created for the second token.
C7_Amended ==
    [][C7_Scenario(rsvps, sent')
         => /\ sent'.resp.code = 400
            /\ sent'.resp.error = ErrValidation
            /\ sent'.resp.availableSpots = <<>>
            /\ rsvps' = rsvps]_vars

\* C7 witness: the scenario, answered with a validation error.
C7_Witness == C7_Scenario(rsvps, sent) /\ sent.resp.error = ErrValidation

\* C8: every token RSVP has status going or not-going and companions in 0..5.
C8_TokenRsvpRange ==
    \A r \in DOMAIN rsvps :
       r.tokenId # None
         => /\ r.status \in {"going", "not-going"}
            /\ r.companions \in 0..MaxCompanions

\* C8 witness: a submission outside the range was refused while a token RSVP
\* with the largest companions value is stored.
C8_Witness ==
    /\ sent.req.op = "token"
    /\ sent.resp.error = ErrValidation
    /\ sent.req.status = "maybe" \/ sent.req.rawCompanions \in {<<6>>, <<-1>>}
    /\ \E r \in DOMAIN rsvps : r.tokenId # None /\ r.companions = MaxCompanions

\* C9: a 'not-going' token RSVP and a 'maybe' user RSVP are never
\* capacity-checked, and storing one adds nothing to the attendee count seen by
\* later admission checks nor to any dietary bucket.
C9_OnlyGoingCounts ==
    [][\A p \in Procs :
         LET e == req[p].eventId
         IN  /\ (pc'[p] = "check" /\ pc[p] # "check") => req'[p].status = "going"
             /\ EventFull(sent'.resp)
                   => (sent'.req.op = "token" /\ sent'.req.status = "going")
             /\ (pc[p] = "create" /\ pc'[p] # "create" /\ req[p].status = "not-going"
                   /\ sent'.resp.code # 500)
                   => /\ rsvps' # rsvps
                      /\ currentAttendees(rsvps', e) = currentAttendees(rsvps, e)
                      /\ dietaryStats(rsvps', e) = dietaryStats(rsvps, e)
             /\ (pc[p] = "upsert" /\ pc'[p] # "upsert" /\ req[p].status # "going")
                   => LET wasGoing == \E r \in UserDocs(e, req[p].user) : r.status = "going"
                          freed == IF wasGoing THEN 1 ELSE 0
                      IN  /\ sent'.resp.code = 200
                          /\ currentAttendees(rsvps', e) = currentAttendees(rsvps, e) - freed
                          /\ dietaryStats(rsvps', e) =
                               [dietaryStats(rsvps, e) EXCEPT !.notSpecified = @ - freed]]_vars

\* C9 witness: the dietary statistics are all zero and nobody is counted
\* while a 'not-going' token RSVP with companions and preferences and a
\* 'maybe' user RSVP are stored.
C9_Witness ==
    /\ sent.req.op = "stats"
    /\ sent.resp.stats = <<[nonveg |-> 0, veg |-> 0, vegan |-> 0, notSpecified |-> 0]>>
    /\ currentAttendees(rsvps, sent.req.eventId) = 0
    /\ \E r \in DOMAIN rsvps :
          /\ r.eventId = sent.req.eventId
          /\ r.tokenId # None
          /\ r.status = "not-going"
          /\ r.companions = 5
          /\ r.dietaryPreference = "veg"
    /\ \E r \in DOMAIN rsvps :
          r.eventId = sent.req.eventId /\ r.userId # None /\ r.status = "maybe"

\* C10: whenever a token submission fails as full, the reported number of
\* remaining spots is max(0, capacity - currentAttendees), never negative.
C10_RemainingSpotsFloored ==
    TokenRejectedFull
      => /\ sent.resp.availableSpots =
              <<Max(0, sent.req.capacity - Going(rsvps, sent.req.eventId))>>
         /\ sent.resp.availableSpots[1] >= 0

\* Number of documents of S in the collection (copies counted) that satisfy
\* the test P.
CountWhere(P(_)) == CountDocs(rsvps, {r \in DOMAIN rsvps : P(r)})

\* C11: the dietary statistics of an event count, per bucket, one for every
\* 'going' RSVP whose dietaryPreference falls in the bucket plus one for every
\* 'going' RSVP with companions > 0 whose companionDietaryPreference falls in
\* it (notSpecified when absent); the buckets sum to the number of 'going'
\* RSVPs plus the number of 'going' RSVPs with companions > 0.
C11_DietaryBuckets ==
    (sent.req.op = "stats" /\ sent.resp.code = 200)
      => LET e == sent.req.eventId
             stats == sent.resp.stats[1]
             going(r) == r.eventId = e /\ r.status = "going"
             own(k) == LET P(r) == going(r) /\ bucket(r.dietaryPreference) = k
                       IN  CountWhere(P)
             comp(k) == LET P(r) == going(r) /\ r.companions > 0
                                       /\ bucket(r.companionDietaryPreference) = k
                        IN  CountWhere(P)
             withComp == LET P(r) == going(r) /\ r.companions > 0 IN CountWhere(P)
         IN  /\ DOMAIN stats = {"nonveg", "veg", "vegan", "notSpecified"}
             /\ \A k \in DOMAIN stats : stats[k] = own(k) + comp(k)
             /\ stats.nonveg + stats.veg + stats.vegan + stats.notSpecified
                  = CountWhere(going) + withComp

\* C11 witness: a 'going' guest (nonveg) with four companions (vegan) and a
\* 'going' organizer without preferences give one count in each of three
\* buckets.
C11_Witness ==
    /\ sent.req.op = "stats"
    /\ sent.resp.stats = <<[nonveg |-> 1, veg |-> 0, vegan |-> 1, notSpecified |-> 1]>>
    /\ \E r \in DOMAIN rsvps : r.status = "going" /\ r.companions = 4
                                /\ r.companionDietaryPreference = "vegan"

\* C12: once a token submission has stored the RSVP of an (event, token)
\* pair, no later step of any request removes it or changes its status or
\* companions (so the status route keeps reporting hasResponded and a
\* resubmission keeps failing with AlreadyResponded).
C12_SlotStaysResponded ==
    [][\A r \in DOMAIN rsvps :
         r.tokenId # None
           => \E r2 \in DOMAIN rsvps' :
                 /\ r2.eventId = r.eventId
                 /\ r2.tokenId = r.tokenId
                 /\ r2.status = r.status
                 /\ r2.companions = r.companions]_vars

\* C13: when the insert of a token submission finds an RSVP of its (event,
\* token) pair already stored (a concurrent submission for the same token
\* passed the already-responded lookup too), the pair keeps exactly one RSVP
\* and the request is answered with a client error 400 or 409, not with 500.
C13_DuplicateInsertIsConflict ==
    [][\A p \in Procs :
         (pc[p] = "create" /\ pc'[p] # "create"
            /\ TokenDocs(req[p].eventId, req[p].token) # {})
           => /\ rsvps' = rsvps
              /\ CountDocs(rsvps, TokenDocs(req[p].eventId, req[p].token)) = 1
              /\ sent'.req = req[p]
              /\ sent'.resp.code \in {400, 409}]_vars

\* C14: a user submission with a status of rsvpSchema by an organizer is
\* answered 200, with the pair's RSVP stored, when the event exists and was
\* created by the caller, whatever the event's capacity and attendance and
\* whatever other user submission is in flight; otherwise it is answered 404
\* "Event not found" and changes nothing.
C14_UserRsvpAlwaysAdmitted ==
    [][/\ \A p \in Procs :
            (pc[p] = "upsert" /\ pc'[p] # "upsert")
              => /\ sent'.req = req[p]
                 /\ sent'.resp.code = 200
                 /\ \E r \in DOMAIN rsvps' :
                       /\ r.eventId = req[p].eventId
                       /\ r.userId = req[p].user
                       /\ r.status = req[p].status
       /\ (sent'.req.op = "user" /\ role(sent'.req.user) = "admin"
             /\ sent'.req.status \in {"going", "maybe", "not-going"})
            => IF /\ sent'.req.eventId \in DOMAIN createdBy
                  /\ createdBy[sent'.req.eventId] = sent'.req.user
                 THEN sent'.resp.code = 200
               ELSE /\ sent'.resp.code = 404
                    /\ sent'.resp.error = ErrEventNotFound
                    /\ UNCHANGED <<capacity, createdBy, tokenName, rsvps, inviteVars>>]_vars

\* C14 witness: a 'going' user submission was answered 200 although the
\* event's attendance is above its capacity, while another submission of the
\* same user for the same event is about to write.
C14_Witness ==
    /\ sent.req.op = "user"
    /\ sent.req.status = "going"
    /\ sent.resp.code = 200
    /\ Going(rsvps, sent.req.eventId) > capacity[sent.req.eventId]
    /\ \E p \in Procs :
          /\ pc[p] = "upsert"
          /\ req[p].user = sent.req.user
          /\ req[p].eventId = sent.req.eventId
          /\ req[p].status # "going"

\* The Token documents of event e, and the status and companions of the RSVP
\* that stands for a token of event e, read off the state directly: the
\* token's own RSVP if stored, else the RSVP of the registered user with the
\* token's email, else none.
EventTokens(e) == {t \in TokenCollection(tokenName, invites) : t.eventId = e}
SameEmailDocs(e, t) ==
    {r \in DOMAIN rsvps : /\ r.eventId = e
                          /\ r.userId \in Users
                          /\ Chars(userEmail(r.userId)) = t.email}
ResolvedDocs(e, t) == IF TokenDocs(e, t.id) # {} THEN TokenDocs(e, t.id) ELSE SameEmailDocs(e, t)
ResolvedStatus(e, t) ==
    IF ResolvedDocs(e, t) = {} THEN None ELSE (CHOOSE r \in ResolvedDocs(e, t) : TRUE).status

\* The last step answered GET /tokens/:eventId with a page of invitees.
Listed == sent.req.op = "list" /\ sent.resp.code = 200
ListedIds == {sent.resp.tokens[i].id : i \in DOMAIN sent.resp.tokens}
\* The page of the response holds the whole filtered list.
WholeList ==
    /\ sent.resp.pagination[1].page = 1
    /\ sent.resp.pagination[1].limit >= sent.resp.pagination[1].total

\* C15: without search text, the list filtered by 'pending' consists of
\* exactly the event's tokens with neither an RSVP of their own nor an RSVP
\* of a registered user with the token's email; filtered by another value it
\* consists of exactly the tokens whose resolved status is that value. (The
\* response reports the size of the filtered list and one page of it.)
C15_StatusFilter ==
    (Listed /\ sent.req.query[3] = <<>> /\ sent.req.query[4] # None)
      => LET e == sent.req.eventId
             f == sent.req.query[4]
             expected ==
                 IF f = "pending"
                   THEN {t \in EventTokens(e) : TokenDocs(e, t.id) = {} /\ SameEmailDocs(e, t) = {}}
                 ELSE {t \in EventTokens(e) : ResolvedStatus(e, t) = f}
         IN  /\ sent.resp.pagination[1].total = Cardinality(expected)
             /\ ListedIds \subseteq {t.id : t \in expected}
             /\ WholeList => ListedIds = {t.id : t \in expected}

\* C15 witness: the 'pending' list is t3 alone: t2 has an RSVP of its own
\* and t1 has none, but the user with t1's email has one.
C15_Witness ==
    /\ Listed
    /\ sent.req.query = <<<<>>, <<>>, <<>>, "pending">>
    /\ ListedIds = {"t3"}
    /\ TokenDocs("e1", "t1") = {}
    /\ \E u \in Users : userEmail(u) = tokenEmail("t1") /\ UserDocs("e1", u) # {}
    /\ TokenDocs("e1", "t2") # {}

\* C16: the status and companions listed for a token are those of the
\* token's own RSVP when one is stored, whatever RSVP the user with the same
\* email has; the user's RSVP is listed only when the token has none, and the
\* status is null (companions 0) when neither exists.
C16_TokenRsvpFirst ==
    Listed
      => \A i \in DOMAIN sent.resp.tokens :
            LET e == sent.req.eventId
                shown == sent.resp.tokens[i]
                own == TokenDocs(e, shown.id)
                byEmail == {r \in DOMAIN rsvps :
                              /\ r.eventId = e
                              /\ r.userId \in Users
                              /\ Chars(userEmail(r.userId)) = shown.email}
            IN  /\ own # {} => \E r \in own : /\ shown.rsvpStatus = r.status
                                              /\ shown.companions = r.companions
                /\ (own = {} /\ byEmail # {})
                     => \E r \in byEmail : /\ shown.rsvpStatus = r.status
                                           /\ shown.companions = r.companions
                /\ (own = {} /\ byEmail = {})
                     => (shown.rsvpStatus = None /\ shown.companions = 0)

\* C16 witness: t1 is listed as going with four companions, its own RSVP,
\* while the user with t1's email has answered maybe.
C16_Witness ==
    /\ Listed
    /\ \E i \in DOMAIN sent.resp.tokens :
          /\ sent.resp.tokens[i].id = "t1"
          /\ sent.resp.tokens[i].rsvpStatus = "going"
          /\ sent.resp.tokens[i].companions = 4
    /\ \E u \in Users :
          /\ userEmail(u) = tokenEmail("t1")
          /\ \E r \in UserDocs("e1", u) : r.status = "maybe"

\* C17: for page >= 1 and limit >= 1 the response holds the elements at
\* positions (page-1)*limit .. page*limit-1 of the list of the event's tokens
\* that pass the search and the status filter, newest first; total is the
\* size of that list and totalPages = ceil(total / limit). (Every position
\* below total lies in exactly one page 1..totalPages, so the pages together
\* hold every filtered token once.)
C17_PaginateAfterFilter ==
    (Listed /\ sent.resp.pagination[1].page >= 1 /\ sent.resp.pagination[1].limit >= 1)
      => LET e == sent.req.eventId
             search == sent.req.query[3]
             f == sent.req.query[4]
             page == sent.resp.pagination[1].page
             limit == sent.resp.pagination[1].limit
             total == sent.resp.pagination[1].total
             totalPages == sent.resp.pagination[1].totalPages
             shown == sent.resp.tokens
             filtered ==
                 {t \in EventTokens(e) :
                    /\ search = <<>> \/ regexTest(search, t.email) \/ regexTest(search, t.name)
                    /\ \/ f = None
                       \/ f = "pending" /\ ResolvedStatus(e, t) = None
                       \/ f # "pending" /\ ResolvedStatus(e, t) = f}
             newer(t) == Cardinality({x \in filtered : x.createdAt > t.createdAt})
         IN  /\ total = Cardinality(filtered)
             /\ totalPages * limit >= total
             /\ (totalPages - 1) * limit < total \/ (total = 0 /\ totalPages = 0)
             /\ Len(shown) = Max(0, Min(limit, total - (page - 1) * limit))
             /\ \A i \in DOMAIN shown :
                   \E t \in filtered :
                      /\ t.id = shown[i].id
                      /\ newer(t) = (page - 1) * limit + (i - 1)

\* C17 witness: page 2 of the three tokens, two per page, holds the oldest
\* token alone.
C17_Witness ==
    /\ Listed
    /\ sent.resp.pagination = <<[page |-> 2, limit |-> 2, total |-> 3, totalPages |-> 2]>>
    /\ Len(sent.resp.tokens) = 1
    /\ sent.resp.tokens[1].id = "t1"

\* C18: when the email dispatch of an invitation fails, the request is still
\* answered 201 with the token it created, and the Token document stays in
\* the collection; no step removes or changes a created Token document.
C18_DispatchFailureKeepsToken ==
    [][/\ \A p \in Procs :
            (pc[p] = "send" /\ pc'[p] # "send" /\ sent'.req.mail = "failed")
              => /\ sent'.resp.code = 201
                 /\ sent'.resp.token = <<[id |-> req[p].newToken[1].id,
                                          email |-> req[p].newToken[1].email,
                                          name |-> req[p].newToken[1].name]>>
                 /\ \E i \in DOMAIN invites' : invites'[i] = req[p].newToken[1]
       /\ \A i \in DOMAIN invites : i \in DOMAIN invites' /\ invites'[i] = invites[i]]_vars

\* C18 witness: an invitation whose email could not be delivered was
\* answered 201, and the token of the response is stored.
C18_Witness ==
    /\ sent.req.op = "invite"
    /\ sent.req.mail = "failed"
    /\ sent.resp.code = 201
    /\ \E i \in DOMAIN invites : invites[i].id = sent.resp.token[1].id

\* C19: the 201 response of an invitation carries emailSent = true exactly
\* when the invitation email was dispatched with success; a failed dispatch
\* gives emailSent = false.
C19_EmailSentOnlyWhenDelivered ==
    (sent.req.op = "invite" /\ sent.resp.code = 201)
      => (sent.resp.emailSent = <<TRUE>> <=> sent.req.mail = "sent")

\* Number of templates of organizer u marked as default (copies counted).
Defaults(u) == CountDocs(templates, {t \in DOMAIN templates : t.userId = u /\ t.isDefault})

\* C20: every organizer has at most one template with isDefault = true, in
\* every state, also while template saves of one organizer run concurrently.
C20_OneDefaultPerOrganizer == \A u \in Users : Defaults(u) <= 1

\* C20 witness: a save with isDefault = true was refused at its write, which
\* would have stored a second default: the only template of the organizer
\* is the default that a concurrent save stored after both had unset the
\* defaults.
C20_Witness ==
    /\ sent.req.op = "template"
    /\ sent.req.isDefault
    /\ sent.resp.code = 500
    /\ Defaults(sent.req.user) = 1
    /\ \A t \in DOMAIN templates : t.userId = sent.req.user => t.isDefault

\* n is what String.prototype.trim leaves of g: g is n between two runs of
\* white space, and n neither starts nor ends with white space.
IsTrimOf(n, g) ==
    /\ n # <<>>
    /\ n[1] \notin WhiteSpace
    /\ n[Len(n)] \notin WhiteSpace
    /\ \E i \in 1..Len(g) :
          /\ i + Len(n) - 1 <= Len(g)
          /\ SubSeq(g, i, i + Len(n) - 1) = n
          /\ \A j \in 1..Len(g) : (j < i \/ j > i + Len(n) - 1) => g[j] \in WhiteSpace

\* C21: no step removes a Token document or changes its event, email, secret
\* or creation time; its name changes only in the step that answers 201 to a
\* token submission whose guest name holds a non-blank character, after the
\* RSVP of the submission is stored, and the name then is the trimmed guest
\* name; a token submission answered with an error changes no Token document.
C21_TokenRecordFrame ==
    [][LET before == TokenCollection(tokenName, invites)
           after == TokenCollection(tokenName', invites')
       IN  /\ \A d \in before :
                \E x \in after :
                   /\ x.id = d.id
                   /\ x.eventId = d.eventId
                   /\ x.email = d.email
                   /\ x.createdAt = d.createdAt
                   /\ x.name # d.name
                        => \E p \in Procs :
                              /\ req[p].op = "token"
                              /\ req[p].token = d.id
                              /\ sent' = [req |-> req[p], resp |-> sent'.resp]
                              /\ sent'.resp.code = 201
                              /\ IsTrimOf(x.name, req[p].guestName)
                              /\ TokenDocs(d.eventId, d.id) # {}
           /\ (sent'.req.op = "token" /\ sent'.resp.code = 201
                 /\ \E j \in DOMAIN sent'.req.guestName : sent'.req.guestName[j] \notin WhiteSpace)
                => IsTrimOf(tokenName'[sent'.req.token], sent'.req.guestName)
           /\ (sent'.req.op = "token" /\ sent'.resp.code # 201)
                => after = before]_vars

\* C21 witness: a submission for a token with guest name tab-"An " was answered
\* 201 and the token's name is "An".
C21_Witness ==
    /\ sent.req.op = "token"
    /\ sent.resp.code = 201
    /\ sent.req.guestName = <<"\t", "A", "n", " ">>
    /\ tokenName[sent.req.token] = <<"A", "n">>

\* C22: no step of a status request changes the event, a Token document, an
\* RSVP or a template; a status request for an unknown token is answered 404;
\* for a known token it is answered 200 with hasResponded = true exactly when
\* an RSVP of the token for its event is stored when the response is sent,
\* and then with the status of that RSVP and totalAttendees = 1 + companions
\* for 'going' and 0 for any other status.
C22_StatusReadsOnly ==
    [][/\ (\E p \in Procs : req[p].op = "status" /\ pc'[p] # pc[p]) \/ sent'.req.op = "status"
            => UNCHANGED <<capacity, createdBy, tokenName, rsvps, invites, templates>>
       /\ sent'.req.op = "status"
            => LET t == sent'.req.token
               IN  IF t \notin Tokens
                     THEN sent'.resp.code = 404 /\ sent'.resp.error = ErrBadToken
                   ELSE /\ sent'.resp.code = 200
                        /\ sent'.resp.hasResponded = <<TokenDocs(tokenEventId(t), t) # {}>>
                        /\ sent'.resp.hasResponded = <<TRUE>>
                             => \E r \in TokenDocs(tokenEventId(t), t) :
                                   /\ sent'.resp.status = r.status
                                   /\ sent'.resp.companions = <<r.companions>>
                                   /\ sent'.resp.totalAttendees =
                                        <<IF r.status = "going" THEN 1 + r.companions ELSE 0>>]_vars

\* C22 witness: the status of a token that answered not-going with five
\* companions is reported with hasResponded = true and totalAttendees = 0.
C22_Witness ==
    /\ sent.req.op = "status"
    /\ sent.resp.hasResponded = <<TRUE>>
    /\ sent.resp.status = "not-going"
    /\ sent.resp.companions = <<5>>
    /\ sent.resp.totalAttendees = <<0>>

\* The operations open to organizers that name an event.
OrganizerOps == {"user", "getRsvp", "allRsvps", "stats", "list", "invite", "updateEvent",
                 "template"}

\* The request r names an event that exists and was created by another user
\* than its caller, an organizer.
NotOwned(r) ==
    /\ r.op \in OrganizerOps
    /\ role(r.user) = "admin"
    /\ r.eventId \in DOMAIN createdBy
    /\ createdBy[r.eventId] # r.user

\* The body of request r passes the schema of its route.
WellFormed(r) ==
    CASE r.op = "user" -> r.status \in {"going", "maybe", "not-going"}
      [] r.op = "updateEvent" -> r.capacity >= MinCapacity /\ r.date \in {<<d>> : d \in FutureDates}
      [] r.op = "template" -> Len(r.hostName) \in 1..MaxHostName
      [] OTHER -> TRUE

\* C23: a request of an organizer route naming an event that another user
\* created gets no further than its first step: it is answered in the step it
\* starts in, with 404 'Event not found' when its body is well-formed (and
\* with 400 otherwise), and that step changes no event, Token document, RSVP
\* or template.
C23_NotOwnedIsNotFound ==
    [][/\ \A p \in Procs : ~NotOwned(req'[p])
       /\ NotOwned(sent'.req)
            => /\ UNCHANGED <<capacity, createdBy, tokenName, rsvps, invites, templates>>
               /\ IF WellFormed(sent'.req)
                    THEN sent'.resp = Reply(404, ErrEventNotFound)
                  ELSE sent'.resp = Reply(400, ErrValidation)]_vars

\* C23 witness: organizer u1 asked to save a template for event e2 of
\* organizer u2 and was answered 404, while templates and RSVPs are stored.
C23_Witness ==
    /\ sent.req.op = "template"
    /\ sent.req.user = "u1"
    /\ sent.req.eventId = "e2"
    /\ sent.resp.code = 404
    /\ templates # EmptyBag
    /\ rsvps # EmptyBag

\* The template the last response resolved: the one an answered invitation
\* was sent with (<<>> when it was sent with the hardcoded styling), or the
\* one GET /email-templates returned.
Resolved ==
    IF sent.req.op = "invite" THEN sent.req.template
    ELSE IF sent.resp.template = <<HardcodedTemplate>> THEN <<>> ELSE sent.resp.template

\* The last response ends a template resolution for organizer and event.
HasResolved ==
    \/ sent.req.op = "invite" /\ sent.req.mail # None
    \/ sent.req.op = "getTemplate" /\ sent.resp.code = 200 /\ sent.req.eventId # None

\* The resolution falls back in the order of the code: the organizer's
\* template of the event, else the organizer's default, else the hardcoded
\* styling; the template is the organizer's own.
C24_FallbackOrder ==
    HasResolved
      => LET u == sent.req.user
             e == sent.req.eventId
             bound == {t \in DOMAIN templates : t.userId = u /\ t.eventId = e}
             default == {t \in DOMAIN templates : t.userId = u /\ t.isDefault}
         IN  /\ bound # {} => (Resolved # <<>> /\ Resolved[1] \in bound)
             /\ (bound = {} /\ default # {}) => (Resolved # <<>> /\ Resolved[1] \in default)
             /\ (bound = {} /\ default = {}) => Resolved = <<>>
             /\ Resolved # <<>> => Resolved[1].userId = u

\* C24: the template resolved for (organizer, event) is the organizer's
\* template bound to the event if there is one, else the organizer's default
\* template if there is one, else the hardcoded styling; it is never a
\* template of another organizer nor one bound to a different event.
C24_ResolvedTemplate ==
    /\ C24_FallbackOrder
    /\ (HasResolved /\ Resolved # <<>>) => Resolved[1].eventId \in {None, sent.req.eventId}

\* The last step of the transition answered a submission of a known token
\* that had no RSVP for its event, with a body that passed validation.
FreshTokenAnswer(p) ==
    /\ req[p].op = "token"
    /\ pc'[p] = "idle"
    /\ TokenDocs(req[p].eventId, req[p].token) = {}

\* C25: an update of the event by its owner with a capacity the schema
\* accepts succeeds whatever the attendance, sets the capacity and changes no
\* RSVP; while the sum of (1 + companions) over the 'going' RSVPs of the
\* event is above its capacity, a 'going' submission of a token that has not
\* responded yet is answered 400 'Event is full' and stores nothing, and a
\* 'not-going' or 'maybe' submission of such a token is answered 201 and its
\* RSVP is stored.
C25_SoftCap ==
    [][/\ sent'.req.op = "updateEvent" => rsvps' = rsvps
       /\ (/\ sent'.req.op = "updateEvent"
           /\ sent'.req.eventId \in DOMAIN createdBy
           /\ createdBy[sent'.req.eventId] = sent'.req.user
           /\ sent'.req.capacity >= MinCapacity
           /\ sent'.req.date \in {<<d>> : d \in FutureDates})
            => /\ sent'.resp.code = 200
               /\ capacity' = [capacity EXCEPT ![sent'.req.eventId] = sent'.req.capacity]
       /\ \A p \in Procs :
            (/\ FreshTokenAnswer(p)
             /\ req[p].capacity = capacity[req[p].eventId]
             /\ Going(rsvps, req[p].eventId) > capacity[req[p].eventId])
              => IF req[p].status = "going"
                   THEN /\ sent'.resp.code = 400
                        /\ EventFull(sent'.resp)
                        /\ rsvps' = rsvps
                 ELSE /\ sent'.resp.code = 201
                      /\ \E r \in DOMAIN rsvps' :
                            /\ r.eventId = req[p].eventId
                            /\ r.tokenId = req[p].token
                            /\ r.status = req[p].status]_vars

\* C25 witness: the capacity of e1 is 10 while twelve attendees are going
\* (the capacity was lowered), and a 'going' submission has just been
\* refused as full.
C25_Witness ==
    /\ capacity["e1"] = MinCapacity
    /\ Going(rsvps, "e1") = MinCapacity + 2
    /\ sent.req.op = "token"
    /\ sent.req.status = "going"
    /\ EventFull(sent.resp)

\* Seats taken by the 'going' RSVPs of tokens for event e, and the number of
\* 'going' RSVPs of registered users for event e (copies counted).
TokenSeats(e) == SumGoing(rsvps, {r \in DOMAIN rsvps : r.eventId = e /\ r.userId = None})
UsersGoing(e) ==
    CountDocs(rsvps, {r \in DOMAIN rsvps : r.eventId = e /\ r.userId # None
                                            /\ r.status = "going"})

\* C26: in the admission check of a 'going' token submission every 'going'
\* RSVP of a registered user takes one seat and a user RSVP with any other
\* status takes none: the submission of a token that has not responded is
\* admitted exactly when 1 + companions fits into capacity minus the seats of
\* the tokens minus the number of 'going' user RSVPs, and a refusal reports
\* the seats left when the attendance is counted that way.
C26_UserRsvpTakesOneSeat ==
    [][\A p \in Procs :
         (FreshTokenAnswer(p) /\ req[p].status = "going"
            /\ req[p].capacity = capacity[req[p].eventId])
           => LET e == req[p].eventId
                  taken == TokenSeats(e) + UsersGoing(e)
              IN  IF 1 + req[p].companions <= capacity[e] - taken
                    THEN sent'.resp.code = 201
                  ELSE /\ EventFull(sent'.resp)
                       /\ sent'.resp.availableSpots = <<capacity[e] - taken>>]_vars

\* C26 witness: with one token RSVP of five seats and the owner's 'going'
\* RSVP, a submission for five seats is refused with four seats left of ten.
C26_Witness ==
    /\ sent.req.op = "token"
    /\ sent.req.companions = 4
    /\ EventFull(sent.resp)
    /\ sent.resp.availableSpots = <<4>>
    /\ UsersGoing("e1") = 1
    /\ capacity["e1"] = MinCapacity

\* C27: a step that answers a request made by a registered user leaves the
\* RSVPs of every event created by another user as they are; above all the
\* cleanup called by one organizer deletes no RSVP of another organizer's
\* event.
C27_OtherOrganizersRsvpsKept ==
    [][sent'.req.user # None
         => \A e \in DOMAIN createdBy :
               createdBy[e] # sent'.req.user
                 => \A r \in DOMAIN rsvps \cup DOMAIN rsvps' :
                       r.eventId = e => CopiesIn(r, rsvps') = CopiesIn(r, rsvps)]_vars

\* C28: a token submission answered with an error (400, 404 or 500) has
\* stored no RSVP: the RSVP a submission created is in its response's request
\* only when the response is 201.
C28_ErrorMeansNothingStored ==
    (sent.req.op = "token" /\ sent.resp.code # 201) => sent.req.rsvp = <<>>

\* Template t is the one a save of organizer u for event e (None when the
\* request names no event) addresses.
Addressed(t, u, e) == t.userId = u /\ t.eventId = e

\* C29: a step of a template save removes or rewrites no template but the one
\* the request addresses (the caller's template of the event for a request
\* with eventId, never a template bound to an event for a request without);
\* only a request that sets isDefault may clear the default mark of another
\* template of its caller, and after a step of a request that does not set
\* isDefault every default template of the caller is still marked default.
C29_SaveTouchesOnlyAddressed ==
    [][\A p \in Procs :
         (req[p].op = "template" /\ pc'[p] # pc[p])
           => \A t \in DOMAIN templates :
                 /\ ~Addressed(t, req[p].user, req[p].eventId)
                      => \/ CopiesIn(t, templates') >= CopiesIn(t, templates)
                         \/ /\ req[p].isDefault
                            /\ t.userId = req[p].user
                            /\ t.isDefault
                            /\ [t EXCEPT !.isDefault = FALSE] \in DOMAIN templates'
                 /\ (~req[p].isDefault /\ t.userId = req[p].user /\ t.isDefault)
                      => \E x \in DOMAIN templates' :
                            x.userId = t.userId /\ x.eventId = t.eventId /\ x.isDefault]_vars

\* C30: the write of a save for an event (isDefault false) by an organizer
\* who holds a non-default template of another event is answered 200, and
\* both templates are stored afterwards; and a save that sets isDefault by an
\* organizer who holds a default and a non-default template is not refused
\* when it clears the old default mark.
C30_SeveralEventTemplates ==
    [][\A p \in Procs :
         /\ (/\ pc[p] = "upsertTemplate" /\ pc'[p] # pc[p]
             /\ req[p].eventId # None
             /\ ~req[p].isDefault)
              => \A t \in DOMAIN templates :
                    (t.userId = req[p].user /\ t.eventId \notin {None, req[p].eventId}
                       /\ ~t.isDefault)
                      => /\ sent'.resp.code = 200
                         /\ t \in DOMAIN templates'
                         /\ \E x \in DOMAIN templates' :
                               x.userId = req[p].user /\ x.eventId = req[p].eventId
         /\ (/\ pc[p] = "unsetDefaults" /\ pc'[p] # pc[p]
             /\ \E t \in DOMAIN templates : t.userId = req[p].user /\ t.isDefault
             /\ \E t \in DOMAIN templates : t.userId = req[p].user /\ ~t.isDefault)
              => pc'[p] = "upsertTemplate"]_vars

====
